---- MODULE Spec2Model ----
(***************************************************************************)
(* Model of the message synchronization service of AutoCare Pro            *)
(* (MessageProvider, frontend/src/contexts/MessageContext as found in      *)
(* src/frontend/src/components/admin/AdminUserConversations.jsx:38-394).   *)
(*                                                                         *)
(* Conventions                                                             *)
(*  - JavaScript "falsy / absent" values are 0 for ids and instants and "" *)
(*    for strings, so that `a || b` is IF a # 0 THEN a ELSE b.             *)
(*  - An object-or-id field (sender, recipient) is a record [_id, name,    *)
(*    email, role]: a bare id has only _id, a legacy role string has only  *)
(*    role, an absent field has nothing.                                   *)
(*  - A timestamp is a natural number (a valid instant); ISO strings and   *)
(*    Date objects denote the same instant, so JSON round trips keep it.   *)
(*  - Every await splits a handler: the code before the await is the Call  *)
(*    action, the code after it is the Resp action, which works on the     *)
(*    values its closure captured when the handler was called.             *)
(*                                                                         *)
(* Specifications                                                          *)
(*  - Spec: the provider under every interleaving of its handlers.         *)
(*  - NormSpec: the normalizer applied to raw batches of every shape.      *)
(*  - LoadSpec: logins, refreshes and their answers, with a history of     *)
(*    the loads.                                                           *)
(*  - SocketSpec: the socket.io rooms of backend/server-simple.js.         *)
(*  - ApiSpec: the routes of backend/server-simple.js and their stores.    *)
(*  - OriginSpec: the provider, with the origin of every conversation.     *)
(*  - BridgeSpec: the session, the socket and its message-received         *)
(*    listeners.                                                           *)
(*  - LocSpec: the location routes of backend/src/routes/locations.js     *)
(*    over the Location collection.                                        *)
(***************************************************************************)
EXTENDS Integers, Sequences, FiniteSets, TLC

\* ------------------------------------------------------------------ bounds
MaxTime == 2    \* instants are 1..MaxTime (client clock and server stamps)
MaxOps == 3     \* handler invocations (calls and delivered events) per run
MaxSends == 2   \* sends that may be in flight together
MaxLoads == 2   \* loads that may be in flight together
MaxGen == 2     \* identifiers the normalizer may generate per run

\* ------------------------------------------------------- identifier spaces
AdminId == 1            \* users[0]._id of the backend's seed data
UserIds == {2, 3}       \* non-admin user ids
NoId == 0               \* undefined / null
PendingBase == 100      \* id: Date.now() of a locally created message
GenBase == 200          \* `${Date.now()}-${random}` of normalizeMessage

Times == 1..MaxTime

\* --------------------------------------------------------------- messages
NoRef == [_id |-> NoId, name |-> "", email |-> "", role |-> ""]

IdRef(i) == [NoRef EXCEPT !._id = i]

ObjRef(i, n, e) == [_id |-> i, name |-> n, email |-> e, role |-> ""]

RoleRef(r) == [NoRef EXCEPT !.role = r]

EmptyMsg ==
  [isNull |-> FALSE, id |-> NoId, _id |-> NoId, createdAt |-> 0, timestamp |-> 0,
   senderType |-> "", sender |-> NoRef, recipient |-> NoRef,
   conversation |-> NoId, text |-> "", pending |-> FALSE]

NullMsg == [EmptyMsg EXCEPT !.isNull = TRUE]

\* m.sender?._id || m.sender, m.recipient?._id || m.recipient
RefId(r) == r._id

\* the value `message.senderType || message.sender` as a role string
RefAsRole(r) ==
  IF r.role # "" THEN r.role ELSE IF r._id # NoId THEN "other" ELSE ""

\* ------------------------------------------------------------- normalizer
\* the normalizer has to generate an identifier for this record
NeedsGen(message) ==
  ~message.isNull /\ message.id = NoId /\ message._id = NoId

\* normalizeMessage at client instant t, with g the identifier that
\* `${Date.now()}-${Math.random()...}` yields on this call
normalizeMessage(message, t, g) ==
  IF message.isNull THEN NullMsg
  ELSE [message EXCEPT
          !.id = IF message.id # NoId THEN message.id
                 ELSE IF message._id # NoId THEN message._id ELSE g,
          !.senderType = IF message.senderType # "" THEN message.senderType
                         ELSE RefAsRole(message.sender),
          !.createdAt = IF message.createdAt # 0 THEN message.createdAt
                        ELSE IF message.timestamp # 0 THEN message.timestamp
                        ELSE t]

RECURSIVE GenCount(_)
\* how many identifiers arr.map(normalizeMessage) generates
GenCount(arr) ==
  IF arr = <<>> THEN 0
  ELSE (IF NeedsGen(Head(arr)) THEN 1 ELSE 0) + GenCount(Tail(arr))

RECURSIVE MapNormalize(_, _, _)
\* arr.map(normalizeMessage): the k-th generated identifier is GenBase+n+k
MapNormalize(arr, t, n) ==
  IF arr = <<>> THEN <<>>
  ELSE <<normalizeMessage(Head(arr), t, GenBase + n + 1)>>
       \o MapNormalize(Tail(arr), t, IF NeedsGen(Head(arr)) THEN n + 1 ELSE n)

\* .filter(Boolean)
FilterBoolean(arr) == SelectSeq(arr, LAMBDA m : ~m.isNull)

\* one step of a stable insertion: x goes behind every element that does
\* not compare greater, so equal instants keep their input order
InsertStable(sorted, x) ==
  LET k == Cardinality({i \in 1..Len(sorted) : sorted[i].createdAt <= x.createdAt})
      \* elements are ascending, so those k elements are the first k
  IN  SubSeq(sorted, 1, k) \o <<x>> \o SubSeq(sorted, k + 1, Len(sorted))

RECURSIVE SortFrom(_, _)
SortFrom(sorted, rest) ==
  IF rest = <<>> THEN sorted
  ELSE SortFrom(InsertStable(sorted, Head(rest)), Tail(rest))

\* .sort((a, b) => new Date(a.createdAt) - new Date(b.createdAt)),
\* Array.prototype.sort being stable
SortByCreatedAt(arr) == SortFrom(<<>>, arr)

\* normalizeMessagesArray at instant t with n identifiers generated so far
normalizeMessagesArray(arr, t, n) ==
  SortByCreatedAt(FilterBoolean(MapNormalize(arr, t, n)))

\* ------------------------------------------------------------------ state
VARIABLES
  user,               \* useAuth().user of the current render
  conversations,      \* useState({}): conversation id -> messages
  usersWithMessages,  \* useState([]): the Known-user list
  loading,            \* useState(false)
  lsMessages,         \* localStorage autocare_messages_<id>: id -> array
  lsUsers,            \* localStorage autocare_message_users
  loads,              \* loadMessages invocations awaiting a response
  sends,              \* sendMessage(ToUser) invocations awaiting a response
  now,                \* Date.now() of the client
  gen,                \* identifiers generated by the normalizer so far
  ops,                \* handler invocations so far
  last,               \* the step just taken and its inputs
  hist,               \* history of the loads: issue order, last completed load
  sockets,            \* the backend's socket.io connections and their rooms
  api,                \* server-simple.js: its stores and its last response
  origin,             \* where each conversation's content came from
  bridge,             \* useSocket().socket and its message-received listeners
  locs                \* the Location collection and the shares in flight

\* the state of the MessageProvider and of the browser's localStorage
clientVars == <<user, conversations, usersWithMessages, loading, lsMessages,
                lsUsers, loads, sends, now, gen, ops, last>>

vars == <<clientVars, hist, sockets, api, origin, bridge, locs>>

\* ------------------------------------------------------- objects as maps
EmptyMap == [k \in {} |-> <<>>]

\* obj[k] || []
Get(obj, k) == IF k \in DOMAIN obj THEN obj[k] ELSE <<>>

\* { ...obj, [k]: v }
Put(obj, k, v) == [x \in DOMAIN obj \cup {k} |-> IF x = k THEN v ELSE obj[x]]

\* ----------------------------------------------------------- local store
\* getLocalConversations: every autocare_messages_<id> entry, as stored
getLocalConversations(ls) == ls

\* saveMessageLocally storing the new record alone
saveMessageLocallyAlone(ls, message, conversationId) ==
  Put(ls, conversationId, <<message>>)

\* saveMessageLocally(message, conversationId) on the store ls
saveMessageLocally(ls, message, conversationId) ==
  Put(ls, conversationId, Append(Get(ls, conversationId), message))

Entry(i, n, e) == [id |-> i, name |-> n, email |-> e]

\* saveUserToMessageList(user) on the stored list
saveUserToMessageList(list, u) ==
  IF \E i \in 1..Len(list) : list[i].id = u.id THEN list
  ELSE Append(list, Entry(u.id, u.name, u.email))

\* ---------------------------------------------------------- session users
NoUser ==
  [present |-> FALSE, id |-> NoId, name |-> "", email |-> "", isAdmin |-> FALSE,
   hasMessages |-> FALSE, messages |-> <<>>]

AdminUser ==
  [present |-> TRUE, id |-> AdminId, name |-> "Admin", email |-> "admin@x",
   isAdmin |-> TRUE, hasMessages |-> FALSE, messages |-> <<>>]

\* a non-admin whose profile carries no messages field
PlainUser(i) ==
  [present |-> TRUE, id |-> i, name |-> "User", email |-> "user@x",
   isAdmin |-> FALSE, hasMessages |-> FALSE, messages |-> <<>>]

\* two profile messages, newest first, one in the legacy field names
ProfileMessages ==
  << [EmptyMsg EXCEPT !._id = 12, !.timestamp = 2, !.sender = RoleRef("user"),
                      !.text = "p2"],
     [EmptyMsg EXCEPT !.id = 11, !.createdAt = 1, !.senderType = "admin",
                      !.text = "p1"] >>

SessionUsers ==
  { AdminUser, PlainUser(2),
    [PlainUser(2) EXCEPT !.hasMessages = TRUE],
    [PlainUser(2) EXCEPT !.hasMessages = TRUE, !.messages = ProfileMessages] }

\* ------------------------------------------------------ in-flight records
IdleLoad ==
  [phase |-> "idle", user |-> NoUser, byUser |-> EmptyMap, users |-> <<>>,
   userIds |-> {}, entries |-> EmptyMap]

IdleSend ==
  [phase |-> "idle", fn |-> "", user |-> NoUser, conversations |-> EmptyMap,
   userId |-> NoId, text |-> ""]

FreeLoad == {i \in 1..MaxLoads : loads[i].phase = "idle"}
FreeSend == {i \in 1..MaxSends : sends[i].phase = "idle"}

\* the slot a new invocation takes
Lowest(S) == CHOOSE i \in S : \A j \in S : i <= j

\* the step just taken: the handler or continuation that ran, whether it
\* took its main branch (a call that was not refused, an answer with
\* success: true), and the conversation or user id it was about
Step(op, ok, id) == [op |-> op, ok |-> ok, id |-> id]

NoStep == Step("init", TRUE, NoId)

\* localStorage outlives the page: what an earlier session of user 2 leaves
\* behind when a send fails at client instant 2 while the answer to an
\* earlier send, stamped 1 by the backend, is still under way
LeftMessages ==
  Put(EmptyMap, 2,
      << [EmptyMsg EXCEPT !.id = PendingBase + 2, !.senderType = "user",
                          !.text = "hello", !.createdAt = 2, !.pending = TRUE],
         [EmptyMsg EXCEPT !.id = 11, !._id = 11, !.sender = IdRef(2),
                          !.conversation = 2, !.text = "hello",
                          !.senderType = "user", !.createdAt = 1] >>)

LeftUsers == <<Entry(2, "User", "user@x")>>

\* no load issued yet
NoHist == [issued |-> 0, seq |-> [i \in 1..MaxLoads |-> 0],
           alone |-> [i \in 1..MaxLoads |-> FALSE], prev |-> [seq |-> 0]]

\* connection ids socket.io may hand out
Conns == {1, 2}

\* no client connected
NoSockets ==
  [c \in Conns |-> [connected |-> FALSE, admin |-> FALSE, rooms |-> {},
                    received |-> {}]]

\* no request answered yet
NoRes == [route |-> "", user |-> "", status |-> 0, success |-> FALSE]

\* let messages = [], locations = [], trucks = [], payments = []
NoApi ==
  [messages |-> <<>>, locations |-> <<>>, trucks |-> <<>>, payments |-> <<>>,
   res |-> NoRes]

\* no conversation set yet, no send in flight
NoOrigin == [of |-> EmptyMap, snap |-> [i \in 1..MaxSends |-> EmptyMap]]

\* socket: null
NoSocket == 0

\* no socket yet, no listener registered
NoBridge == [socket |-> NoSocket, handlers |-> <<>>]

\* no response of the location routes yet
NoLocRes == [route |-> "", status |-> 0, emitted |-> FALSE]

\* an empty Location collection, no share in flight
NoLocs == [docs |-> <<>>, pending |-> <<>>, res |-> NoLocRes]

\* what neither the provider nor the history of its loads touches: the
\* state of the backend, the origin of the conversations, the socket
apart == <<sockets, api, origin, bridge, locs>>

\* what the provider leaves alone: the history and the backend
outside == <<hist, apart>>

Init ==
  /\ user = NoUser
  /\ conversations = EmptyMap
  /\ usersWithMessages = <<>>
  /\ loading = FALSE
  /\ \/ lsMessages = EmptyMap /\ lsUsers = <<>>
     \/ lsMessages = LeftMessages /\ lsUsers = LeftUsers
  /\ loads = [i \in 1..MaxLoads |-> IdleLoad]
  /\ sends = [i \in 1..MaxSends |-> IdleSend]
  /\ now = 1
  /\ gen = 0
  /\ ops = 0
  /\ last = NoStep
  /\ hist = NoHist
  /\ sockets = NoSockets
  /\ api = NoApi
  /\ origin = NoOrigin
  /\ bridge = NoBridge
  /\ locs = NoLocs

\* ------------------------------------------------------- backend answers
\* a message as backend/server-simple.js stores it (POST /api/v1/messages)
SrvA(uid) ==
  [EmptyMsg EXCEPT !._id = 11, !.sender = IdRef(uid), !.conversation = uid,
                   !.text = "a", !.senderType = "user", !.createdAt = 2]

\* an admin's message with populated recipient and no conversation field
SrvB(uid) ==
  [EmptyMsg EXCEPT !._id = 12, !.sender = ObjRef(AdminId, "Admin", "admin@x"),
                   !.recipient = ObjRef(uid, "Ann", "ann@x"), !.text = "b",
                   !.senderType = "admin", !.createdAt = 1]

\* a user's message with populated sender and no conversation field
SrvC(uid) ==
  [EmptyMsg EXCEPT !._id = 13, !.sender = ObjRef(uid, "Cy", "cy@x"),
                   !.text = "c", !.senderType = "user", !.createdAt = 1]

Throw == [kind |-> "throw", data |-> <<>>]
Fail == [kind |-> "fail", data |-> <<>>]
Ok(list) == [kind |-> "ok", data |-> list]

\* GET /messages/admin/all
SummaryResps == {Throw, Fail, Ok(<<>>), Ok(<<SrvA(2), SrvB(3), SrvC(2)>>)}

\* GET /messages/:userId
DetailResps(uid) == {Throw, Fail, Ok(<<>>), Ok(<<SrvA(uid), SrvB(uid)>>)}

\* GET /messages
MessagesResps(uid) == {Throw, Fail, Ok(<<>>), Ok(<<SrvA(uid), SrvB(uid)>>)}

\* ------------------------------------------------------------ loadMessages
\* the conversation id the admin load files a summary message under
ConvIdOf(m) ==
  IF m.conversation # NoId THEN m.conversation
  ELSE IF m.senderType = "user" THEN RefId(m.sender) ELSE RefId(m.recipient)

\* the Known-user entry derived from a summary message
UserOf(m) ==
  LET r == IF m.senderType = "user" THEN m.sender ELSE m.recipient
  IN  Entry(ConvIdOf(m), IF r.name # "" THEN r.name ELSE "User", r.email)

\* Map.prototype.set on a map kept in insertion order
MapSet(list, e) ==
  IF \E i \in 1..Len(list) : list[i].id = e.id
  THEN [i \in 1..Len(list) |-> IF list[i].id = e.id THEN e ELSE list[i]]
  ELSE Append(list, e)

RECURSIVE GroupFrom(_, _, _)
\* msgs.forEach(...) of the admin load: [byUser, users]
GroupFrom(byUser, users, msgs) ==
  IF msgs = <<>> THEN [byUser |-> byUser, users |-> users]
  ELSE LET m == Head(msgs)
           convId == ConvIdOf(m)
       IN  IF convId = NoId THEN GroupFrom(byUser, users, Tail(msgs))
           ELSE GroupFrom(Put(byUser, convId, Append(Get(byUser, convId), m)),
                          MapSet(users, UserOf(m)), Tail(msgs))

GroupByUser(msgs) == GroupFrom(EmptyMap, <<>>, msgs)

\* loadMessages up to its first await, called with `user` = u (non-null)
LoadMessagesCall(u) ==
  IF ~u.isAdmin /\ u.hasMessages /\ Len(u.messages) > 0
  THEN /\ gen + GenCount(u.messages) <= MaxGen
       /\ conversations' =
            Put(EmptyMap, u.id, normalizeMessagesArray(u.messages, now, gen))
       /\ gen' = gen + GenCount(u.messages)
       /\ loading' = FALSE
       /\ UNCHANGED loads
  ELSE /\ FreeLoad # {}
       /\ loads' = [loads EXCEPT ![Lowest(FreeLoad)] =
                      [IdleLoad EXCEPT !.phase = IF u.isAdmin THEN "summary"
                                                ELSE "messages",
                                       !.user = u]]
       /\ loading' = TRUE
       /\ UNCHANGED <<conversations, gen>>

\* useEffect([user]): the session user becomes u
Login(u) ==
  /\ ops < MaxOps
  /\ u # user
  /\ user = NoUser \/ user.id = u.id
  /\ user' = u
  /\ LoadMessagesCall(u)
  /\ ops' = ops + 1
  /\ last' = Step("login", TRUE, u.id)
  /\ UNCHANGED <<usersWithMessages, lsMessages, lsUsers, sends, now>>

\* useEffect([user]): the session user becomes null
Logout ==
  /\ ops < MaxOps
  /\ user # NoUser
  /\ user' = NoUser
  /\ conversations' = EmptyMap
  /\ usersWithMessages' = <<>>
  /\ ops' = ops + 1
  /\ last' = Step("logout", TRUE, NoId)
  /\ UNCHANGED <<loading, lsMessages, lsUsers, loads, sends, now, gen>>

\* refreshMessages()
RefreshMessages ==
  /\ ops < MaxOps
  /\ user # NoUser
  /\ LoadMessagesCall(user)
  /\ ops' = ops + 1
  /\ last' = Step("refreshMessages", TRUE, user.id)
  /\ UNCHANGED <<user, usersWithMessages, lsMessages, lsUsers, sends, now>>

\* the local fallback of an admin load (lines 159-161 and 165-167)
AdminFallback ==
  /\ conversations' = getLocalConversations(lsMessages)
  /\ usersWithMessages' = lsUsers

\* the non-admin fallback (lines 181-183 and 199-201)
UserFallback(u) ==
  /\ gen + GenCount(Get(lsMessages, u.id)) <= MaxGen
  /\ conversations' =
       Put(EmptyMap, u.id, normalizeMessagesArray(Get(lsMessages, u.id), now, gen))
  /\ gen' = gen + GenCount(Get(lsMessages, u.id))

\* getMessages() settles for the non-admin load in slot i
LoadMessagesResp(i, resp) ==
  LET u == loads[i].user IN
  /\ loads[i].phase = "messages"
  /\ CASE resp.kind = "ok" ->
            /\ gen + GenCount(resp.data) <= MaxGen
            /\ conversations' =
                 Put(EmptyMap, u.id, normalizeMessagesArray(resp.data, now, gen))
            /\ gen' = gen + GenCount(resp.data)
       [] resp.kind = "fail" -> UserFallback(u)
       [] resp.kind = "throw" ->
            IF u.hasMessages
            THEN /\ conversations' =
                      Put(EmptyMap, u.id, normalizeMessagesArray(u.messages, now, gen))
                 /\ gen' = gen + GenCount(u.messages)
            ELSE UserFallback(u)
  /\ loading' = FALSE
  /\ loads' = [loads EXCEPT ![i] = IdleLoad]
  /\ last' = Step("loadMessagesResp", resp.kind = "ok", u.id)
  /\ UNCHANGED <<user, usersWithMessages, lsMessages, lsUsers, sends, now, ops>>

\* AdminLoadFinish putting the loaded messages behind those already there
AdminLoadFinishAppending(i, entries, users) ==
  /\ conversations' = [k \in DOMAIN entries |-> Get(conversations, k) \o entries[k]]
  /\ usersWithMessages' = users
  /\ loading' = FALSE

\* AdminLoadFinish keeping the conversations the load did not fetch
AdminLoadFinishMerged(i, entries, users) ==
  /\ conversations' =
       [k \in DOMAIN conversations \cup DOMAIN entries |->
          IF k \in DOMAIN entries THEN entries[k] ELSE conversations[k]]
  /\ usersWithMessages' = users
  /\ loading' = FALSE

\* lines 155-157 and the finally block: the admin load in slot i ends
\* with the per-user entries `entries`
AdminLoadFinish(i, entries, users) ==
  /\ conversations' = entries
  /\ usersWithMessages' = users
  /\ loading' = FALSE

\* getAdminAllMessages() settles for the admin load in slot i
LoadSummaryResp(i, resp) ==
  LET u == loads[i].user
      g == GroupByUser(resp.data)
      userIds == DOMAIN g.byUser
  IN
  /\ loads[i].phase = "summary"
  /\ IF resp.kind = "ok"
     THEN IF userIds = {}
          THEN /\ AdminLoadFinish(i, EmptyMap, g.users)
               /\ loads' = [loads EXCEPT ![i] = IdleLoad]
          ELSE /\ loads' = [loads EXCEPT ![i] =
                              [@ EXCEPT !.phase = "details", !.byUser = g.byUser,
                                        !.users = g.users, !.userIds = userIds]]
               /\ UNCHANGED <<conversations, usersWithMessages, loading>>
     ELSE /\ AdminFallback
          /\ loading' = FALSE
          /\ loads' = [loads EXCEPT ![i] = IdleLoad]
  /\ last' = Step("loadSummaryResp", resp.kind = "ok", u.id)
  /\ UNCHANGED <<user, lsMessages, lsUsers, sends, now, gen, ops>>

\* DetailList without the fallback to the summary's grouping
DetailListNoFallback(byUser, uid, resp) == resp.data

\* lines 146-152: the list one per-user callback normalizes
DetailList(byUser, uid, resp) ==
  IF resp.kind = "ok" THEN resp.data ELSE byUser[uid]

\* LoadDetailResp with each callback setting the map to its own entry
LoadDetailRespOwnEntry(i, uid, resp) ==
  LET l == loads[i]
      list == DetailList(l.byUser, uid, resp)
      entry == [list |-> normalizeMessagesArray(list, now, gen),
                ok |-> resp.kind = "ok", data |-> resp.data]
      entries == Put(l.entries, uid, entry)
  IN
  /\ l.phase = "details"
  /\ uid \in l.userIds \ DOMAIN l.entries
  /\ gen + GenCount(list) <= MaxGen
  /\ gen' = gen + GenCount(list)
  /\ conversations' = Put(EmptyMap, uid, entry.list)
  /\ IF DOMAIN entries = l.userIds
     THEN /\ usersWithMessages' = l.users
          /\ loading' = FALSE
          /\ loads' = [loads EXCEPT ![i] = IdleLoad]
     ELSE /\ loads' = [loads EXCEPT ![i] = [@ EXCEPT !.entries = entries]]
          /\ UNCHANGED <<usersWithMessages, loading>>
  /\ last' = [op |-> "loadDetailResp", ok |-> resp.kind = "ok", id |-> uid,
              data |-> resp.data]
  /\ UNCHANGED <<user, lsMessages, lsUsers, sends, now, ops>>

\* getMessagesForConversation(uid) settles for the admin load in slot i
LoadDetailResp(i, uid, resp) ==
  LET l == loads[i]
      list == DetailList(l.byUser, uid, resp)
      \* the normalized list the callback returns; ok and data keep the
      \* answer it was computed from
      entry == [list |-> normalizeMessagesArray(list, now, gen),
                ok |-> resp.kind = "ok", data |-> resp.data]
      entries == Put(l.entries, uid, entry)
  IN
  /\ l.phase = "details"
  /\ uid \in l.userIds \ DOMAIN l.entries
  /\ gen + GenCount(list) <= MaxGen
  /\ gen' = gen + GenCount(list)
  /\ IF DOMAIN entries = l.userIds
     THEN /\ AdminLoadFinish(i, [k \in l.userIds |-> entries[k].list], l.users)
          /\ loads' = [loads EXCEPT ![i] = IdleLoad]
     ELSE /\ loads' = [loads EXCEPT ![i] = [@ EXCEPT !.entries = entries]]
          /\ UNCHANGED <<conversations, usersWithMessages, loading>>
  /\ last' = [op |-> "loadDetailResp", ok |-> resp.kind = "ok", id |-> uid,
              data |-> resp.data]
  /\ UNCHANGED <<user, lsMessages, lsUsers, sends, now, ops>>

\* ------------------------------------------------------------ sendMessage
Texts == {"hello"}

\* POST /messages answers: the stored message, and an auto-reply or none
SendOk(data, autoReply) == [kind |-> "ok", data |-> data, autoReply |-> autoReply]
SendFail == [kind |-> "fail", data |-> NullMsg, autoReply |-> NullMsg]
SendThrow == [kind |-> "throw", data |-> NullMsg, autoReply |-> NullMsg]

\* the message the backend stores for a send of `text` by u to `recipient`
Stored(u, recipient, text, id, t) ==
  [EmptyMsg EXCEPT !._id = id, !.sender = IdRef(u.id),
                   !.recipient = recipient,
                   !.conversation = IF u.isAdmin THEN RefId(recipient) ELSE u.id,
                   !.text = text,
                   !.senderType = IF u.isAdmin THEN "admin" ELSE "user",
                   !.createdAt = t]

\* the backend's synthesized auto-reply, stamped at t
AutoReply(id, t) ==
  [EmptyMsg EXCEPT !._id = id, !.text = "auto", !.timestamp = t]

\* what the backend may answer to a send; an auto-reply is created after
\* the message it answers, so it is not stamped earlier
SendResps(u, recipient, text) ==
  {SendFail, SendThrow}
  \cup {SendOk(Stored(u, recipient, text, 11, t), NullMsg) : t \in Times}
  \cup {SendOk(Stored(u, recipient, text, 11, t[1]), AutoReply(12, t[2])) :
          t \in {x \in Times \X Times : x[1] <= x[2]}}

\* what a completed send did: the conversation it wrote, the record it
\* built, the normalized auto-reply it added (or none), the new
\* `conversations`, the records it saved locally, whether it called
\* saveUserToMessageList, and the identifiers generated so far
Outcome(conversationId, message, reply, convs, saved, saveUser, n) ==
  [conversationId |-> conversationId, message |-> message, reply |-> reply,
   conversations |-> convs, saved |-> saved, saveUser |-> saveUser, gen |-> n]

\* the backend's answers to sendMessageToUser, which reads no auto-reply
ToUserResps(u, recipient, text) ==
  {SendFail, SendThrow}
  \cup {SendOk(Stored(u, recipient, text, 11, t), NullMsg) : t \in Times}

\* the instants Date.now() may yield to a continuation that reads the clock
\* (the clock is monotone; time that passes unread leaves no trace)
ReadClock(reads) == IF reads THEN now..MaxTime ELSE {now}

\* sendMessageSuccess with the reply list built from currentMessages, so
\* that the second setConversations drops the confirmed message
sendMessageSuccessReplyOverCurrent(u, snap, resp, t, n) ==
  LET n1 == IF NeedsGen(resp.data) THEN n + 1 ELSE n
      sentMessage == normalizeMessage(resp.data, t, GenBase + n + 1)
      conversationId ==
        IF u.isAdmin THEN RefId(sentMessage.recipient) ELSE u.id
      currentMessages == Get(snap, conversationId)
      updatedMessages ==
        normalizeMessagesArray(Append(currentMessages, sentMessage), t, n1)
      n2 == n1 + GenCount(currentMessages)
      hasReply == ~resp.autoReply.isNull
      reply == normalizeMessage(resp.autoReply, t, GenBase + n2 + 1)
      n3 == IF hasReply /\ NeedsGen(resp.autoReply) THEN n2 + 1 ELSE n2
      messagesWithReply ==
        normalizeMessagesArray(Append(currentMessages, reply), t, n3)
  IN  Outcome(conversationId, sentMessage, IF hasReply THEN reply ELSE NullMsg,
              Put(snap, conversationId,
                  IF hasReply THEN messagesWithReply ELSE updatedMessages),
              IF hasReply THEN <<sentMessage, resp.autoReply>> ELSE <<sentMessage>>,
              ~u.isAdmin, n3)

\* lines 259-283: the success branch of sendMessage, for the handler called
\* by u with `conversations` = snap, at instant t with n identifiers generated
sendMessageSuccess(u, snap, resp, t, n) ==
  LET n1 == IF NeedsGen(resp.data) THEN n + 1 ELSE n
      sentMessage == normalizeMessage(resp.data, t, GenBase + n + 1)
      conversationId ==
        IF u.isAdmin THEN RefId(sentMessage.recipient) ELSE u.id
      currentMessages == Get(snap, conversationId)
      updatedMessages ==
        normalizeMessagesArray(Append(currentMessages, sentMessage), t, n1)
      n2 == n1 + GenCount(currentMessages)
      hasReply == ~resp.autoReply.isNull
      reply == normalizeMessage(resp.autoReply, t, GenBase + n2 + 1)
      n3 == IF hasReply /\ NeedsGen(resp.autoReply) THEN n2 + 1 ELSE n2
      messagesWithReply ==
        normalizeMessagesArray(Append(updatedMessages, reply), t, n3)
  IN  Outcome(conversationId, sentMessage, IF hasReply THEN reply ELSE NullMsg,
              Put(snap, conversationId,
                  IF hasReply THEN messagesWithReply ELSE updatedMessages),
              IF hasReply THEN <<sentMessage, resp.autoReply>> ELSE <<sentMessage>>,
              ~u.isAdmin, n3)

\* PendingMessage without the pending flag
PendingMessageUnflagged(senderType, text, t) ==
  [EmptyMsg EXCEPT !.id = PendingBase + t, !.senderType = senderType,
                   !.text = text, !.createdAt = t]

\* lines 291-297 (sendMessage) and 340-346 (sendMessageToUser)
PendingMessage(senderType, text, t) ==
  [EmptyMsg EXCEPT !.id = PendingBase + t, !.senderType = senderType,
                   !.text = text, !.createdAt = t, !.pending = TRUE]

\* lines 287-310: the catch branch of sendMessage
sendMessageFailure(u, snap, text, t, n) ==
  LET newMessage == PendingMessage(IF u.isAdmin THEN "admin" ELSE "user", text, t)
      conversationId == u.id
      currentMessages == Get(snap, conversationId)
      updatedMessages ==
        normalizeMessagesArray(Append(currentMessages, newMessage), t, n)
  IN  Outcome(conversationId, newMessage, NullMsg,
              Put(snap, conversationId, updatedMessages),
              <<newMessage>>, ~u.isAdmin, n + GenCount(currentMessages))

\* lines 323-332: the success branch of sendMessageToUser(userId, text)
sendMessageToUserSuccess(userId, snap, resp, t, n) ==
  LET n1 == IF NeedsGen(resp.data) THEN n + 1 ELSE n
      sentMessage == normalizeMessage(resp.data, t, GenBase + n + 1)
      userMessages == Get(snap, userId)
      updatedMessages ==
        normalizeMessagesArray(Append(userMessages, sentMessage), t, n1)
  IN  Outcome(userId, sentMessage, NullMsg, Put(snap, userId, updatedMessages),
              <<sentMessage>>, FALSE, n1 + GenCount(userMessages))

\* lines 336-353: the catch branch of sendMessageToUser(userId, text)
sendMessageToUserFailure(userId, snap, text, t, n) ==
  LET newMessage == PendingMessage("admin", text, t)
      userMessages == Get(snap, userId)
      updatedMessages ==
        normalizeMessagesArray(Append(userMessages, newMessage), t, n)
  IN  Outcome(userId, newMessage, NullMsg, Put(snap, userId, updatedMessages),
              <<newMessage>>, FALSE, n + GenCount(userMessages))

RECURSIVE SaveAll(_, _, _)
\* saveMessageLocally for each record of `saved`, in order
SaveAll(ls, saved, conversationId) ==
  IF saved = <<>> THEN ls
  ELSE SaveAll(saveMessageLocally(ls, Head(saved), conversationId),
               Tail(saved), conversationId)

\* sendMessage(text) up to its await
SendMessageCall(text) ==
  /\ ops < MaxOps
  /\ ops' = ops + 1
  /\ IF user = NoUser
     THEN UNCHANGED sends
     ELSE /\ FreeSend # {}
          /\ sends' = [sends EXCEPT ![Lowest(FreeSend)] =
                         [phase |-> "wait", fn |-> "sendMessage", user |-> user,
                          conversations |-> conversations, userId |-> NoId,
                          text |-> text]]
  /\ last' = Step("sendMessageCall", user # NoUser, NoId)
  /\ UNCHANGED <<user, conversations, usersWithMessages, loading, lsMessages,
                 lsUsers, loads, now, gen>>

\* sendMessageToUser(userId, text) up to its await
SendMessageToUserCall(userId, text) ==
  /\ ops < MaxOps
  /\ ops' = ops + 1
  /\ IF user = NoUser \/ ~user.isAdmin
     THEN UNCHANGED sends
     ELSE /\ FreeSend # {}
          /\ sends' = [sends EXCEPT ![Lowest(FreeSend)] =
                         [phase |-> "wait", fn |-> "sendMessageToUser",
                          user |-> user, conversations |-> conversations,
                          userId |-> userId, text |-> text]]
  /\ last' = Step("sendMessageToUserCall", user # NoUser /\ user.isAdmin, userId)
  /\ UNCHANGED <<user, conversations, usersWithMessages, loading, lsMessages,
                 lsUsers, loads, now, gen>>

\* the state a completed send leaves, o being its Outcome
ApplySend(i, u, o, resp, t) ==
  /\ now' = t
  /\ o.gen <= MaxGen
  /\ gen' = o.gen
  /\ conversations' = o.conversations
  /\ lsMessages' = SaveAll(lsMessages, o.saved, o.conversationId)
  /\ lsUsers' = IF o.saveUser THEN saveUserToMessageList(lsUsers, u) ELSE lsUsers
  /\ sends' = [sends EXCEPT ![i] = IdleSend]
  /\ last' = [op |-> sends[i].fn, ok |-> resp.kind = "ok", id |-> o.conversationId,
              message |-> o.message, reply |-> o.reply]
  /\ UNCHANGED <<user, usersWithMessages, loading, loads, ops>>

\* apiService.sendMessage settles for the sendMessage call in slot i
SendMessageResp(i, resp, t) ==
  LET s == sends[i] IN
  /\ s.phase = "wait"
  /\ s.fn = "sendMessage"
  /\ ApplySend(i, s.user,
               IF resp.kind = "ok"
               THEN sendMessageSuccess(s.user, s.conversations, resp, t, gen)
               ELSE sendMessageFailure(s.user, s.conversations, s.text, t, gen),
               resp, t)

\* apiService.sendMessage settles for the sendMessageToUser call in slot i
SendMessageToUserResp(i, resp, t) ==
  LET s == sends[i] IN
  /\ s.phase = "wait"
  /\ s.fn = "sendMessageToUser"
  /\ ApplySend(i, s.user,
               IF resp.kind = "ok"
               THEN sendMessageToUserSuccess(s.userId, s.conversations, resp, t, gen)
               ELSE sendMessageToUserFailure(s.userId, s.conversations, s.text, t, gen),
               resp, t)

\* -------------------------------------------------- message-received events
\* the payload backend/server-simple.js emits: flat fields, no identifier
EvFlat(uid, t) ==
  [senderId |-> uid, senderName |-> "Cy", sender |-> NoRef, message |-> NullMsg,
   flat |-> [EmptyMsg EXCEPT !.text = "ev", !.senderType = "user", !.timestamp = t]]

\* a payload that nests the stored message and a populated sender
EvNested(uid, id, t) ==
  [senderId |-> NoId, senderName |-> "", sender |-> ObjRef(uid, "Ann", "ann@x"),
   message |-> [EmptyMsg EXCEPT !._id = id, !.text = "ev", !.senderType = "user",
                                !.sender = IdRef(uid), !.createdAt = t],
   flat |-> [EmptyMsg EXCEPT !.sender = ObjRef(uid, "Ann", "ann@x")]]

\* a payload that names no sender
EvAnon ==
  [senderId |-> NoId, senderName |-> "", sender |-> NoRef, message |-> NullMsg,
   flat |-> [EmptyMsg EXCEPT !.text = "ev", !.timestamp = 1]]

Events == {EvFlat(3, MaxTime), EvAnon} \cup {EvNested(2, 11, t) : t \in Times}

\* data.senderId || (data.sender && data.sender._id)
SenderIdOf(data) == IF data.senderId # NoId THEN data.senderId ELSE RefId(data.sender)

\* ReceivedConversations keeping the sender's conversation alone
ReceivedConversationsAlone(prev, data, t, n) ==
  LET senderId == SenderIdOf(data)
      prevMessages == Get(prev, senderId)
      raw == IF ~data.message.isNull THEN data.message ELSE data.flat
      incoming == normalizeMessage(raw, t, GenBase + n + 1)
      n1 == IF NeedsGen(raw) THEN n + 1 ELSE n
  IN  Put(EmptyMap, senderId,
          normalizeMessagesArray(Append(prevMessages, incoming), t, n1))

\* lines 226-230: the updater handed to setConversations
ReceivedConversations(prev, data, t, n) ==
  LET senderId == SenderIdOf(data)
      prevMessages == Get(prev, senderId)
      raw == IF ~data.message.isNull THEN data.message ELSE data.flat
      incoming == normalizeMessage(raw, t, GenBase + n + 1)
      n1 == IF NeedsGen(raw) THEN n + 1 ELSE n
  IN  Put(prev, senderId, normalizeMessagesArray(Append(prevMessages, incoming), t, n1))

\* identifiers the updater generates
ReceivedGenCount(prev, data) ==
  LET raw == IF ~data.message.isNull THEN data.message ELSE data.flat
  IN  (IF NeedsGen(raw) THEN 1 ELSE 0) + GenCount(Get(prev, SenderIdOf(data)))

\* ReceivedUsers putting the new entry behind the others
ReceivedUsersAtEnd(prev, data) ==
  LET senderId == SenderIdOf(data)
      newUser == Entry(senderId,
                       IF data.senderName # "" THEN data.senderName
                       ELSE IF data.sender.name # "" THEN data.sender.name
                       ELSE "User",
                       data.sender.email)
  IN  IF \E i \in 1..Len(prev) : prev[i].id = senderId THEN prev
      ELSE Append(prev, newUser)

\* ReceivedUsers without the test for an entry of the sender
ReceivedUsersUnchecked(prev, data) ==
  LET senderId == SenderIdOf(data)
      newUser == Entry(senderId,
                       IF data.senderName # "" THEN data.senderName
                       ELSE IF data.sender.name # "" THEN data.sender.name
                       ELSE "User",
                       data.sender.email)
  IN  <<newUser>> \o prev

\* lines 231-240: the updater handed to setUsersWithMessages
ReceivedUsers(prev, data) ==
  LET senderId == SenderIdOf(data)
      newUser == Entry(senderId,
                       IF data.senderName # "" THEN data.senderName
                       ELSE IF data.sender.name # "" THEN data.sender.name
                       ELSE "User",
                       data.sender.email)
  IN  IF \E i \in 1..Len(prev) : prev[i].id = senderId THEN prev
      ELSE <<newUser>> \o prev

\* MessageReceived without the test for an admin session
MessageReceivedAnySession(data) ==
  /\ ops < MaxOps
  /\ ops' = ops + 1
  /\ IF SenderIdOf(data) # NoId
     THEN /\ gen + ReceivedGenCount(conversations, data) <= MaxGen
          /\ gen' = gen + ReceivedGenCount(conversations, data)
          /\ conversations' = ReceivedConversations(conversations, data, now, gen)
          /\ usersWithMessages' = ReceivedUsers(usersWithMessages, data)
     ELSE UNCHANGED <<conversations, usersWithMessages, gen>>
  /\ last' = Step("messageReceived", user # NoUser /\ user.isAdmin, SenderIdOf(data))
  /\ UNCHANGED <<user, loading, lsMessages, lsUsers, loads, sends, now>>

\* handleMessageReceived(data), registered with the session user of the render
MessageReceived(data) ==
  /\ ops < MaxOps
  /\ ops' = ops + 1
  /\ IF user # NoUser /\ user.isAdmin /\ SenderIdOf(data) # NoId
     THEN /\ gen + ReceivedGenCount(conversations, data) <= MaxGen
          /\ gen' = gen + ReceivedGenCount(conversations, data)
          /\ conversations' = ReceivedConversations(conversations, data, now, gen)
          /\ usersWithMessages' = ReceivedUsers(usersWithMessages, data)
     ELSE UNCHANGED <<conversations, usersWithMessages, gen>>
  /\ last' = Step("messageReceived", user # NoUser /\ user.isAdmin, SenderIdOf(data))
  /\ UNCHANGED <<user, loading, lsMessages, lsUsers, loads, sends, now>>

\* ---------------------------------------------------------- refreshUserList
RECURSIVE KeysFrom(_, _)
\* Object.keys: integer-like keys ascending, then "undefined" (NoId)
KeysFrom(S, acc) ==
  IF S = {} THEN acc
  ELSE LET k == IF S = {NoId} THEN NoId
                ELSE CHOOSE x \in S \ {NoId} : \A y \in S \ {NoId} : x <= y
       IN  KeysFrom(S \ {k}, Append(acc, k))

ObjectKeys(obj) == KeysFrom(DOMAIN obj, <<>>)

\* lines 363-371: the entry derived from a conversation's last message
DerivedEntry(convs, uid) ==
  LET msgs == Get(convs, uid)
      r == IF msgs = <<>> THEN NoRef
           ELSE IF msgs[Len(msgs)].senderType = "user" THEN msgs[Len(msgs)].sender
           ELSE msgs[Len(msgs)].recipient
  IN  Entry(uid, IF r.name # "" THEN r.name ELSE "User", r.email)

\* refreshUserList()
RefreshUserList ==
  /\ ops < MaxOps
  /\ ops' = ops + 1
  /\ IF user # NoUser /\ user.isAdmin
     THEN usersWithMessages' =
            [i \in 1..Len(ObjectKeys(conversations)) |->
               DerivedEntry(conversations, ObjectKeys(conversations)[i])]
     ELSE UNCHANGED usersWithMessages
  /\ last' = Step("refreshUserList", user # NoUser /\ user.isAdmin, NoId)
  /\ UNCHANGED <<user, conversations, loading, lsMessages, lsUsers, loads, sends,
                 now, gen>>

\* ------------------------------------------------------------ specification
Next ==
  \/ (\E u \in SessionUsers : Login(u)) /\ UNCHANGED outside
  \/ Logout /\ UNCHANGED outside
  \/ RefreshMessages /\ UNCHANGED outside
  \/ /\ \E i \in 1..MaxLoads : \E resp \in MessagesResps(loads[i].user.id) :
          LoadMessagesResp(i, resp)
     /\ UNCHANGED outside
  \/ /\ \E i \in 1..MaxLoads : \E resp \in SummaryResps : LoadSummaryResp(i, resp)
     /\ UNCHANGED outside
  \/ /\ \E i \in 1..MaxLoads : \E uid \in loads[i].userIds :
          \E resp \in DetailResps(uid) : LoadDetailResp(i, uid, resp)
     /\ UNCHANGED outside
  \/ (\E text \in Texts : SendMessageCall(text)) /\ UNCHANGED outside
  \/ /\ \E i \in 1..MaxSends :
          \E resp \in SendResps(sends[i].user, NoRef, sends[i].text) :
            \E t \in ReadClock(resp.kind # "ok") : SendMessageResp(i, resp, t)
     /\ UNCHANGED outside
  \/ /\ \E userId \in UserIds, text \in Texts : SendMessageToUserCall(userId, text)
     /\ UNCHANGED outside
  \/ /\ \E i \in 1..MaxSends :
          \E resp \in ToUserResps(sends[i].user, IdRef(sends[i].userId), sends[i].text) :
            \E t \in ReadClock(resp.kind # "ok") : SendMessageToUserResp(i, resp, t)
     /\ UNCHANGED outside
  \/ (\E data \in Events : MessageReceived(data)) /\ UNCHANGED outside
  \/ RefreshUserList /\ UNCHANGED outside

Spec == Init /\ [][Next]_vars

\* ==================================================================== claims
\* the instant a record is ordered by: createdAt, else the legacy timestamp
Stamp(m) == IF m.createdAt # 0 THEN m.createdAt ELSE m.timestamp

\* the identifier of a record: id, else the legacy _id
IdOf(m) == IF m.id # NoId THEN m.id ELSE m._id

\* what identifies a message whatever the normalizer filled in
Core(m) == [id |-> IdOf(m), text |-> m.text, stamp |-> Stamp(m), pending |-> m.pending]

\* how many records of seq are the message c
Count(seq, c) == Cardinality({i \in 1..Len(seq) : Core(seq[i]) = c})

\* every message of `before` is in `after`, as often
Retained(before, after) ==
  \A i \in 1..Len(before) :
    Count(after, Core(before[i])) >= Count(before, Core(before[i]))

\* the step just taken is the continuation of a send or a delivered event
AppendStep(l) == l.op \in {"sendMessage", "sendMessageToUser", "messageReceived"}

\* C1: between two loads messages are only appended: a completed send or a
\* delivered message-received event keeps every message that was in an
\* in-memory conversation, whatever the interleaving.
C1_OnlyAppended ==
  [][AppendStep(last') =>
       \A k \in DOMAIN conversations :
         Retained(conversations[k], Get(conversations', k))]_vars

\* the send of slot i, a call of fn, completes in this step
SendDone(i, fn) ==
  /\ sends[i].phase = "wait"
  /\ sends[i].fn = fn
  /\ sends'[i].phase = "idle"
  /\ last'.op = fn

\* the position of the last record of seq that is the message c
LastIndex(seq, c) ==
  CHOOSE i \in 1..Len(seq) :
    Core(seq[i]) = c /\ \A j \in 1..Len(seq) : Core(seq[j]) = c => j <= i

C4_TimestampOrder ==
  \A k \in DOMAIN conversations :
    \A i, j \in 1..Len(conversations[k]) :
      i < j => Stamp(conversations[k][i]) <= Stamp(conversations[k][j])

\* C5: in every reachable state no conversation holds two messages with the
\* same identifier.
C5_UniqueIds ==
  \A k \in DOMAIN conversations :
    \A i, j \in 1..Len(conversations[k]) :
      i # j => IdOf(conversations[k][i]) # IdOf(conversations[k][j])

\* the ids of a Known-user list
Ids(list) == {list[i].id : i \in 1..Len(list)}

NoDuplicates(list) ==
  \A i, j \in 1..Len(list) : i # j => list[i].id # list[j].id

\* C6: when the summary fetch of an admin load succeeded, failed per-user
\* detail fetches do not abort the load: it ends with one conversation per
\* user of the summary, the one grouped from the summary where the detail
\* fetch failed and the normalized detail answer everywhere else. (The
\* backend's records carry id and instant, so the normalizer adds nothing
\* that depends on when it ran.)
C6_DetailFailureIsolated ==
  [][\A i \in 1..MaxLoads :
       loads[i].phase = "details" /\ loads'[i].phase = "idle" =>
         LET l == loads[i]
             Succeeded(uid) ==
               IF uid = last'.id THEN last'.ok ELSE l.entries[uid].ok
             Answer(uid) ==
               IF uid = last'.id THEN last'.data ELSE l.entries[uid].data
         IN  /\ last'.op = "loadDetailResp"
             /\ DOMAIN conversations' = l.userIds
             /\ \A uid \in l.userIds :
                  conversations'[uid] =
                    normalizeMessagesArray(
                      IF Succeeded(uid) THEN Answer(uid) ELSE l.byUser[uid],
                      now, gen)]_vars

\* an admin load has just ended whose last detail fetch failed: that user
\* has the one message the summary listed, the other user the two messages
\* of its own detail fetch
C6_Witness ==
  /\ last.op = "loadDetailResp"
  /\ ~last.ok
  /\ \A i \in 1..MaxLoads : loads[i].phase # "details"
  /\ DOMAIN conversations = {2, 3}
  /\ last.id = 3
  /\ conversations[3] = normalizeMessagesArray(<<SrvB(3)>>, now, gen)
  /\ conversations[2] = normalizeMessagesArray(<<SrvA(2), SrvB(2)>>, now, gen)

\* C7: whenever a load fails, the in-memory state after it is the locally
\* persisted state: for a non-admin the (normalized) conversation stored
\* under the own id, for an admin every locally stored conversation.
C7_FallbackEqualsLocal ==
  [][/\ last'.op = "loadMessagesResp" /\ ~last'.ok =>
          conversations' =
            Put(EmptyMap, last'.id,
                normalizeMessagesArray(Get(lsMessages, last'.id), now, gen))
     /\ last'.op = "loadSummaryResp" /\ ~last'.ok =>
          conversations' = lsMessages]_vars

\* C8: in an admin session a message-received event from a sender that is
\* not in the Known-user list puts one entry for it in front of the entries
\* already there, and an event from a listed sender leaves the list as it
\* is, so two events from an unseen sender add it exactly once.
C8_AddedOnceInFront ==
  [][last'.op = "messageReceived" /\ last'.ok /\ last'.id # NoId =>
       IF last'.id \in Ids(usersWithMessages)
       THEN usersWithMessages' = usersWithMessages
       ELSE /\ Len(usersWithMessages') = Len(usersWithMessages) + 1
            /\ usersWithMessages'[1].id = last'.id
            /\ Tail(usersWithMessages') = usersWithMessages]_vars

\* the second event of a sender has just been handled: its conversation
\* holds two messages and its one entry stands before an older entry
C8_Witness ==
  /\ last.op = "messageReceived"
  /\ last.ok
  /\ last.id # NoId
  /\ Len(Get(conversations, last.id)) = 2
  /\ Len(usersWithMessages) >= 2
  /\ usersWithMessages[1].id = last.id
  /\ Cardinality({i \in 1..Len(usersWithMessages) :
                    usersWithMessages[i].id = last.id}) = 1

\* C9: in every reachable state neither the Known-user list in memory nor
\* the one stored under autocare_message_users has two entries with the
\* same identifier.
C9_KnownUsersDeduplicated ==
  NoDuplicates(usersWithMessages) /\ NoDuplicates(lsUsers)

\* a list of two users, reached by an event from a sender that was listed
C9_Witness ==
  /\ last.op = "messageReceived"
  /\ last.ok
  /\ Len(usersWithMessages) >= 2
  /\ Len(Get(conversations, last.id)) >= 2
  /\ last.id \in Ids(usersWithMessages)
  /\ lsUsers # <<>>

\* C10: within one admin session a user id that is in the Known-user list
\* stays in it through every later step.
C10_NeverRemoved ==
  [][user # NoUser /\ user.isAdmin /\ user' = user =>
       Ids(usersWithMessages) \subseteq Ids(usersWithMessages')]_vars

\* no load is awaiting a response
NoLoadInFlight == \A i \in 1..MaxLoads : loads[i].phase = "idle"

\* the step just taken completed an operation that builds conversations
BuiltBy(l) ==
  l.op \in {"sendMessageToUser", "messageReceived", "loadSummaryResp",
            "loadDetailResp"}

\* C11: in an admin session, in every state reached when a load, a
\* message-received event or a sendMessageToUser has completed, every user
\* id that keys a non-empty conversation has an entry in the Known-user list.
C11_ObservedUserListed ==
  user # NoUser /\ user.isAdmin /\ BuiltBy(last) =>
    \A k \in UserIds \cap DOMAIN conversations :
      conversations[k] # <<>> => k \in Ids(usersWithMessages)

\* C12: conversations are keyed by the counterpart user's id: a non-admin
\* session whose loads have completed holds exactly one key, its own id, and
\* in an admin session every key is the id of a non-admin user.
C12_KeyedByCounterpart ==
  /\ user # NoUser /\ ~user.isAdmin /\ NoLoadInFlight =>
       DOMAIN conversations = {user.id}
  /\ user # NoUser /\ user.isAdmin =>
       DOMAIN conversations \subseteq UserIds

\* ------------------------------------------------ the normalizer's inputs
MaxBatch == 3   \* records in a raw batch

\* raw records in the shapes the normalizer coalesces
RawNew ==
  [EmptyMsg EXCEPT !.id = 21, !.createdAt = 1, !.senderType = "user", !.text = "x"]

RawLegacy ==
  [EmptyMsg EXCEPT !._id = 22, !.timestamp = 1, !.sender = RoleRef("admin"),
                   !.text = "y"]

\* neither identifier nor instant
RawBare == [EmptyMsg EXCEPT !.senderType = "user", !.text = "z"]

\* text: ''
RawNoText ==
  [EmptyMsg EXCEPT !.id = 24, !.createdAt = 2, !.senderType = "admin"]

\* both names of every field, with different values
RawBoth ==
  [EmptyMsg EXCEPT !.id = 25, !._id = 26, !.createdAt = 2, !.timestamp = 1,
                   !.senderType = "admin", !.sender = RoleRef("user"),
                   !.text = "w"]

\* sender is the user's id, as the backend stores it, and no senderType
RawSenderId ==
  [EmptyMsg EXCEPT !._id = 27, !.createdAt = 2, !.sender = IdRef(2), !.text = "v"]

RawMessages ==
  {NullMsg, RawNew, RawLegacy, RawBare, RawNoText, RawBoth, RawSenderId}

RawBatches == UNION {[1..n -> RawMessages] : n \in 0..MaxBatch}

\* a non-admin whose profile carries the raw batch
ProfileUser(batch) ==
  [PlainUser(2) EXCEPT !.hasMessages = TRUE, !.messages = batch]

\* the provider before the first render with a user, at any client instant
NormInit ==
  /\ user = NoUser
  /\ conversations = EmptyMap
  /\ usersWithMessages = <<>>
  /\ loading = FALSE
  /\ lsMessages = EmptyMap
  /\ lsUsers = <<>>
  /\ loads = [i \in 1..MaxLoads |-> IdleLoad]
  /\ sends = [i \in 1..MaxSends |-> IdleSend]
  /\ now \in Times
  /\ gen = 0
  /\ ops = 0
  /\ last = NoStep
  /\ hist = NoHist
  /\ sockets = NoSockets
  /\ api = NoApi
  /\ origin = NoOrigin
  /\ bridge = NoBridge
  /\ locs = NoLocs

\* line 173: the first load of the session normalizes the profile's batch
NormNext ==
  /\ user = NoUser
  /\ \E batch \in RawBatches : Login(ProfileUser(batch))
  /\ UNCHANGED outside

NormSpec == NormInit /\ [][NormNext]_vars

\* the batch the load was given and the conversation it built from it
BatchIn == user.messages
BatchOut == Get(conversations, user.id)

\* the load of a profile with a non-empty batch has run
Normalized == user # NoUser /\ last.op = "login" /\ Len(BatchIn) > 0

\* an absent record, or one with empty or missing text
Malformed(m) == m.isNull \/ m.text = ""

\* C13: normalizing an absent or malformed entry yields no canonical message:
\* the batch normalizer's output has one element per well-formed input and
\* none with empty text.
C13_MalformedExcluded ==
  Normalized =>
    /\ Len(BatchOut) = Cardinality({i \in 1..Len(BatchIn) : ~Malformed(BatchIn[i])})
    /\ \A j \in 1..Len(BatchOut) : ~Malformed(BatchOut[j])

\* out is in ascending order of createdAt
Ascending(out) ==
  \A a, b \in 1..Len(out) : a < b => out[a].createdAt <= out[b].createdAt

\* out holds one record per input position of `kept`, records of equal
\* instant in the order of their inputs (every raw record has its own text)
StableImage(in, kept, out) ==
  \E pi \in [1..Len(out) -> kept] :
    /\ \A a, b \in 1..Len(out) : a # b => pi[a] # pi[b]
    /\ \A a \in 1..Len(out) : out[a].text = in[pi[a]].text
    /\ \A a, b \in 1..Len(out) :
         a < b /\ out[a].createdAt = out[b].createdAt => pi[a] < pi[b]

\* C14: batch-normalizing yields exactly one canonical message per
\* non-malformed input, ascending by timestamp, inputs of equal timestamp in
\* their input order.
C14_OnePerInputStableSorted ==
  Normalized =>
    LET kept == {i \in 1..Len(BatchIn) : ~Malformed(BatchIn[i])}
    IN  /\ Len(BatchOut) = Cardinality(kept)
        /\ Ascending(BatchOut)
        /\ StableImage(BatchIn, kept, BatchOut)

\* o is the record m with each field coalesced in the fixed precedence,
\* read at client instant t
Coalesced(m, o, t) ==
  /\ o.text = m.text
  /\ o.createdAt = IF m.createdAt # 0 THEN m.createdAt
                   ELSE IF m.timestamp # 0 THEN m.timestamp ELSE t
  /\ o.senderType = IF m.senderType # "" THEN m.senderType
                    ELSE RefAsRole(m.sender)
  /\ IF m.id # NoId THEN o.id = m.id
     ELSE IF m._id # NoId THEN o.id = m._id
     ELSE o.id > GenBase

\* C15: every canonical message is an input with the timestamp coalesced
\* createdAt, timestamp, current time, the sender role senderType, sender,
\* the identifier id, _id, generated; and its sender role is user or admin.
C15_CoalescePrecedence ==
  Normalized =>
    \A a \in 1..Len(BatchOut) :
      /\ \E i \in 1..Len(BatchIn) :
           ~BatchIn[i].isNull /\ Coalesced(BatchIn[i], BatchOut[a], now)
      /\ BatchOut[a].senderType \in {"user", "admin"}

\* ----------------------------------------------- loads and their history
\* loadMessages called by u settles within the call (lines 171-173)
SyncLoad(u) == ~u.isAdmin /\ u.hasMessages /\ Len(u.messages) > 0

\* a completed load: its place in the order of issue, whether no other load
\* was in flight when it was issued, the user it ran for, the answers it
\* got, the conversations it replaced, the state it left, whether it
\* repeated the load completed before it (issued next, in sequence, for the
\* same user, same answers), the user whose answer ended it, and whether it
\* got the per-user answers of the load before it with another one last
Done(seq, alone, u, kind, answer, data, byUser, users, entries, convs, list) ==
  LET p == hist.prev
      same == /\ p.seq > 0
              /\ seq = p.seq + 1
              /\ alone
              /\ <<u, kind, answer, data, byUser, users, entries>> =
                 <<p.user, p.kind, p.answer, p.data, p.byUser, p.users, p.entries>>
  IN  [seq |-> seq, alone |-> alone, user |-> u, kind |-> kind, answer |-> answer,
       data |-> data, byUser |-> byUser, users |-> users, entries |-> entries,
       replaced |-> conversations, conversations |-> convs,
       usersWithMessages |-> list, repeat |-> same, closedBy |-> last'.id,
       reordered |-> /\ p.seq > 0
                     /\ kind = "details"
                     /\ <<u, kind, byUser, entries>> =
                        <<p.user, p.kind, p.byUser, p.entries>>
                     /\ p.closedBy # last'.id]

\* the history after loadMessages was called with `user` = u
Issued(u) ==
  hist' =
    IF SyncLoad(u)
    THEN [hist EXCEPT !.issued = @ + 1,
                      !.prev = Done(hist.issued + 1, NoLoadInFlight, u, "profile",
                                    "ok", u.messages, EmptyMap, <<>>, EmptyMap,
                                    conversations', usersWithMessages')]
    ELSE [hist EXCEPT !.issued = @ + 1,
                      !.seq[Lowest(FreeLoad)] = hist.issued + 1,
                      !.alone[Lowest(FreeLoad)] = NoLoadInFlight]

\* the history after the load in slot i ran to its end
Completed(i, kind, answer, data, entries) ==
  hist' = [hist EXCEPT !.seq[i] = 0,
                       !.prev = Done(hist.seq[i], hist.alone[i], loads[i].user,
                                     kind, answer, data, loads[i].byUser,
                                     loads[i].users, entries,
                                     conversations', usersWithMessages')]

\* useEffect([user]) starts the first load of the session
LoadLogin(u) == Login(u) /\ Issued(u) /\ UNCHANGED apart

\* refreshMessages() starts another, whatever is in flight
LoadRefresh == RefreshMessages /\ Issued(user) /\ UNCHANGED apart

LoadUserAnswer(i, resp) ==
  /\ LoadMessagesResp(i, resp)
  /\ Completed(i, "messages", resp.kind, resp.data, EmptyMap)
  /\ UNCHANGED apart

LoadSummaryAnswer(i, resp) ==
  /\ LoadSummaryResp(i, resp)
  /\ IF loads'[i].phase = "idle"
     THEN Completed(i, "summary", resp.kind, resp.data, EmptyMap)
     ELSE UNCHANGED hist
  /\ UNCHANGED apart

LoadDetailAnswer(i, uid, resp) ==
  /\ LoadDetailResp(i, uid, resp)
  /\ IF loads'[i].phase = "idle"
     THEN Completed(i, "details", "ok", <<>>,
                    [k \in loads[i].userIds |->
                       IF k = uid THEN [ok |-> resp.kind = "ok", data |-> resp.data]
                       ELSE [ok |-> loads[i].entries[k].ok,
                             data |-> loads[i].entries[k].data]])
     ELSE UNCHANGED hist
  /\ UNCHANGED apart

LoadNext ==
  \/ \E u \in SessionUsers : LoadLogin(u)
  \/ LoadRefresh
  \/ \E i \in 1..MaxLoads : \E resp \in MessagesResps(loads[i].user.id) :
       LoadUserAnswer(i, resp)
  \/ \E i \in 1..MaxLoads : \E resp \in SummaryResps : LoadSummaryAnswer(i, resp)
  \/ \E i \in 1..MaxLoads : \E uid \in loads[i].userIds :
       \E resp \in DetailResps(uid) : LoadDetailAnswer(i, uid, resp)

LoadSpec == Init /\ [][LoadNext]_vars

\* C16: refreshMessages is idempotent: a load that repeats the load completed
\* before it (issued in sequence, same user, same answers, same local store)
\* leaves the conversations and the Known-user list as that load left them.
C16_RefreshIdempotent ==
  [][hist'.prev # hist.prev /\ hist'.prev.repeat =>
       /\ conversations' = hist.prev.conversations
       /\ usersWithMessages' = hist.prev.usersWithMessages
       /\ conversations' = conversations
       /\ usersWithMessages' = usersWithMessages]_vars

\* an admin's refresh has repeated a load one of whose detail fetches failed
C16_Witness ==
  /\ hist.prev.seq = 2
  /\ hist.prev.repeat
  /\ hist.prev.kind = "details"
  /\ \E k \in DOMAIN hist.prev.entries : ~hist.prev.entries[k].ok
  /\ \E k \in DOMAIN hist.prev.entries : hist.prev.entries[k].ok
  /\ DOMAIN conversations = {2, 3}
  /\ \A k \in {2, 3} : conversations[k] # <<>>
  /\ Len(usersWithMessages) = 2

\* the conversations a completed load d computed from its own answers
LoadedConversations(d) ==
  CASE d.kind = "profile" ->
         Put(EmptyMap, d.user.id, normalizeMessagesArray(d.user.messages, now, gen))
    [] d.kind = "messages" ->
         Put(EmptyMap, d.user.id,
             normalizeMessagesArray(
               IF d.answer = "ok" THEN d.data
               ELSE IF d.answer = "throw" /\ d.user.hasMessages THEN d.user.messages
               ELSE Get(lsMessages, d.user.id),
               now, gen))
    [] d.kind = "summary" -> IF d.answer = "ok" THEN EmptyMap ELSE lsMessages
    [] d.kind = "details" ->
         [k \in DOMAIN d.entries |->
            normalizeMessagesArray(
              IF d.entries[k].ok THEN d.entries[k].data ELSE d.byUser[k], now, gen)]

\* C17: when loads overlap neither is cancelled (refreshMessages leaves the
\* loads in flight as they are), and the conversations are those of the load
\* that completed last, also when it was issued before the load that
\* completed before it.
C17_LastCompletedWins ==
  [][/\ last'.op = "refreshMessages" =>
          \A i \in 1..MaxLoads : loads[i].phase # "idle" => loads'[i] = loads[i]
     /\ hist'.prev # hist.prev =>
          conversations' = LoadedConversations(hist'.prev)]_vars

\* the load issued first has completed after the load issued second, with
\* other answers: the later load had left two conversations, the earlier
\* one's empty summary leaves none
C17_Witness ==
  /\ hist.issued = 2
  /\ hist.prev.seq = 1
  /\ NoLoadInFlight
  /\ hist.prev.kind = "summary"
  /\ hist.prev.answer = "ok"
  /\ DOMAIN hist.prev.replaced = {2, 3}
  /\ conversations = EmptyMap
  /\ last.op = "loadSummaryResp"

\* C18: the message-received handler has an effect only in an admin
\* session: delivered to a non-admin session, or while no user is logged in,
\* it leaves the conversations and the Known-user list unchanged.
C18_AdminOnlyEffect ==
  [][last'.op = "messageReceived" /\ (user = NoUser \/ ~user.isAdmin) =>
       /\ conversations' = conversations
       /\ usersWithMessages' = usersWithMessages]_vars

\* an event that names its sender has been delivered to a non-admin session
\* that holds its own conversation
C18_Witness ==
  /\ last.op = "messageReceived"
  /\ last.id # NoId
  /\ user # NoUser
  /\ ~user.isAdmin
  /\ DOMAIN conversations = {user.id}
  /\ conversations[user.id] # <<>>
  /\ usersWithMessages = <<>>

\* send requests awaiting the backend's answer
Requests == Cardinality({i \in 1..MaxSends : sends[i].phase = "wait"})

\* the step just taken is a call of sendMessage or sendMessageToUser that
\* was not refused
SendCalled(l) == l.op \in {"sendMessageCall", "sendMessageToUserCall"} /\ l.ok

\* the step just taken may replace the conversations: the end of a load (or
\* the load of a profile within the call), or the session's end
Replaces(l) ==
  l.op \in {"login", "logout", "refreshMessages", "loadMessagesResp",
            "loadSummaryResp", "loadDetailResp"}

\* every pending record of `convs` is in the same conversation of `after`
PendingKept(convs, after) ==
  \A k \in DOMAIN convs :
    \A j \in 1..Len(convs[k]) :
      convs[k][j].pending =>
        \E j2 \in 1..Len(Get(after, k)) : after[k][j2] = convs[k][j]

\* C19: a pending message is never re-sent automatically: a request is
\* issued by a call of sendMessage or sendMessageToUser and by nothing else,
\* one per call, and a pending record stays in its conversation, pending,
\* until a load replaces the conversation.
C19_PendingNotRetried ==
  [][/\ Requests' > Requests => SendCalled(last')
     /\ SendCalled(last') => Requests' = Requests + 1
     /\ ~Replaces(last') => PendingKept(conversations, conversations')]_vars

\* ------------------------------------------ backend: socket.io and rooms
\* 'admin-room' and `user-${userId}`
AdminRoom == <<"admin-room", NoId>>
UserRoom(userId) == <<"user", userId>>

\* the events the backend emits to the admin room
AdminEvents ==
  {"message-received", "payment-initiated", "payment-completed", "location-shared"}

\* io.on('connection'): a client connects as c; `admin` is the role of the
\* session behind it, which the server neither asks for nor records
Connect(c, admin) ==
  /\ ~sockets[c].connected
  /\ sockets' = [sockets EXCEPT ![c] =
                   [connected |-> TRUE, admin |-> admin, rooms |-> {},
                    received |-> {}]]

\* socket.on('join-user-room', userId)
JoinUserRoom(c, userId) ==
  /\ sockets[c].connected
  /\ sockets' = [sockets EXCEPT ![c].rooms = @ \cup {UserRoom(userId)}]

\* socket.on('join-admin-room')
JoinAdminRoom(c) ==
  /\ sockets[c].connected
  /\ sockets' = [sockets EXCEPT ![c].rooms = @ \cup {AdminRoom}]

\* socket.on('disconnect'): socket.io takes the socket out of its rooms
Disconnect(c) ==
  /\ sockets[c].connected
  /\ sockets' = [sockets EXCEPT ![c].connected = FALSE, ![c].rooms = {}]

\* io.to('admin-room').emit(event, ...)
EmitToAdminRoom(event) ==
  sockets' = [c \in Conns |->
                IF sockets[c].connected /\ AdminRoom \in sockets[c].rooms
                THEN [sockets[c] EXCEPT !.received = @ \cup {event}]
                ELSE sockets[c]]

\* POST /api/v1/messages
PostMessage == EmitToAdminRoom("message-received")

\* POST /api/v1/payments/create-payment-intent
CreatePaymentIntent == EmitToAdminRoom("payment-initiated")

\* POST /api/v1/payments/confirm-payment
ConfirmPayment == EmitToAdminRoom("payment-completed")

\* POST /api/v1/locations
PostLocation == EmitToAdminRoom("location-shared")

\* what the socket handlers and the emits leave alone (the stores the
\* emitting routes write are followed in ApiSpec)
inside == <<clientVars, hist, api, origin, bridge, locs>>

SocketNext ==
  \/ (\E c \in Conns, admin \in BOOLEAN : Connect(c, admin)) /\ UNCHANGED inside
  \/ /\ \E c \in Conns, userId \in {AdminId} \cup UserIds : JoinUserRoom(c, userId)
     /\ UNCHANGED inside
  \/ (\E c \in Conns : JoinAdminRoom(c)) /\ UNCHANGED inside
  \/ (\E c \in Conns : Disconnect(c)) /\ UNCHANGED inside
  \/ PostMessage /\ UNCHANGED inside
  \/ CreatePaymentIntent /\ UNCHANGED inside
  \/ ConfirmPayment /\ UNCHANGED inside
  \/ PostLocation /\ UNCHANGED inside

SocketSpec == Init /\ [][SocketNext]_vars

\* C20: only admin sessions are members of the admin broadcast group: no
\* connection of a non-admin session is in the admin room or has received an
\* event emitted to it, whatever join requests it sent.
C20_AdminRoomAdminsOnly ==
  \A c \in Conns :
    sockets[c].connected /\ ~sockets[c].admin =>
      /\ AdminRoom \notin sockets[c].rooms
      /\ sockets[c].received \cap AdminEvents = {}

\* ------------------------------------ backend: the routes and their stores
MaxStored == 2   \* records a store may hold

\* the mock user authenticateToken puts in req.user (line 63)
TestUser == [_id |-> 2, name |-> "Test User", role |-> "user"]

\* a request that was given no req.user
NoReqUser == [_id |-> NoId, name |-> "", role |-> ""]

\* the bearer token of the Authorization header: none, or any token
Tokens == {"", "user-token", "admin-token"}

\* authenticateToken: the req.user it sets, none where it answers 401
authenticateToken(token) == IF token = "" THEN NoReqUser ELSE TestUser

\* requireAdmin calling next() for every req.user
requireAdminOpen(reqUser) == TRUE

\* requireAdmin calls next()
requireAdmin(reqUser) == reqUser.role = "admin"

\* res.status(status).json({ success, ... }) to the request of reqUser
Res(route, reqUser, status, success) ==
  [route |-> route, user |-> reqUser.role, status |-> status, success |-> success]

\* the response of the middleware that ends the request before the route's
\* handler runs, NoRes where the handler runs; `admin`: the route is behind
\* requireAdmin
Refused(route, token, admin) ==
  LET reqUser == authenticateToken(token)
  IN  IF reqUser = NoReqUser THEN Res(route, reqUser, 401, FALSE)
      ELSE IF admin /\ ~requireAdmin(reqUser) THEN Res(route, reqUser, 403, FALSE)
      ELSE NoRes

\* the request ends in the middleware: nothing is stored, nothing emitted
Answer(res) == api' = [api EXCEPT !.res = res] /\ UNCHANGED sockets

\* app.post('/api/v1/messages') (the _id and createdAt of a stored record,
\* both read from the server's clock, are left out)
ReqPostMessage(token, text) ==
  LET route == "POST /messages"
      reqUser == authenticateToken(token)
      message == [sender |-> reqUser._id, conversation |-> reqUser._id,
                  text |-> text, senderType |-> "user", isRead |-> FALSE]
  IN  IF Refused(route, token, FALSE) # NoRes
      THEN Answer(Refused(route, token, FALSE))
      ELSE /\ Len(api.messages) < MaxStored
           /\ api' = [api EXCEPT !.messages = Append(@, message),
                                 !.res = Res(route, reqUser, 201, TRUE)]
           /\ PostMessage

\* app.get('/api/v1/messages/admin/all')
ReqGetAdminAllMessages(token) ==
  LET route == "GET /messages/admin/all"
  IN  IF Refused(route, token, TRUE) # NoRes
      THEN Answer(Refused(route, token, TRUE))
      ELSE Answer(Res(route, authenticateToken(token), 200, TRUE))

\* app.post('/api/v1/payments/confirm-payment')
ReqConfirmPayment(token) ==
  LET route == "POST /payments/confirm-payment"
      payment == [amount |-> 5000, currency |-> "usd", status |-> "succeeded"]
  IN  IF Refused(route, token, FALSE) # NoRes
      THEN Answer(Refused(route, token, FALSE))
      ELSE /\ Len(api.payments) < MaxStored
           /\ api' = [api EXCEPT !.payments = Append(@, payment),
                                 !.res = Res(route, authenticateToken(token),
                                             200, TRUE)]
           /\ ConfirmPayment

LocationTypes == {"current", "home"}

\* app.post('/api/v1/locations')
ReqPostLocation(token, locationType) ==
  LET route == "POST /locations"
      reqUser == authenticateToken(token)
      location == [user |-> reqUser._id, locationType |-> locationType,
                   isActive |-> TRUE]
  IN  IF Refused(route, token, FALSE) # NoRes
      THEN Answer(Refused(route, token, FALSE))
      ELSE /\ Len(api.locations) < MaxStored
           /\ api' = [api EXCEPT !.locations = Append(@, location),
                                 !.res = Res(route, reqUser, 201, TRUE)]
           /\ PostLocation

\* app.get('/api/v1/locations/all')
ReqGetAllLocations(token) ==
  LET route == "GET /locations/all"
  IN  IF Refused(route, token, TRUE) # NoRes
      THEN Answer(Refused(route, token, TRUE))
      ELSE Answer(Res(route, authenticateToken(token), 200, TRUE))

\* app.get('/api/v1/trucks')
ReqGetTrucks(token) ==
  LET route == "GET /trucks"
  IN  IF Refused(route, token, FALSE) # NoRes
      THEN Answer(Refused(route, token, FALSE))
      ELSE Answer(Res(route, authenticateToken(token), 200, TRUE))

\* app.post('/api/v1/trucks')
ReqPostTruck(token) ==
  LET route == "POST /trucks"
      truck == [status |-> "available", isActive |-> TRUE]
  IN  IF Refused(route, token, TRUE) # NoRes
      THEN Answer(Refused(route, token, TRUE))
      ELSE /\ Len(api.trucks) < MaxStored
           /\ api' = [api EXCEPT !.trucks = Append(@, truck),
                                 !.res = Res(route, authenticateToken(token),
                                             201, TRUE)]
           /\ UNCHANGED sockets

\* what the routes leave alone
beyond == <<clientVars, hist, origin, bridge, locs>>

ApiNext ==
  \/ (\E token \in Tokens, text \in Texts : ReqPostMessage(token, text))
       /\ UNCHANGED beyond
  \/ (\E token \in Tokens : ReqGetAdminAllMessages(token)) /\ UNCHANGED beyond
  \/ (\E token \in Tokens : ReqConfirmPayment(token)) /\ UNCHANGED beyond
  \/ (\E token \in Tokens, locationType \in LocationTypes :
        ReqPostLocation(token, locationType)) /\ UNCHANGED beyond
  \/ (\E token \in Tokens : ReqGetAllLocations(token)) /\ UNCHANGED beyond
  \/ (\E token \in Tokens : ReqGetTrucks(token)) /\ UNCHANGED beyond
  \/ (\E token \in Tokens : ReqPostTruck(token)) /\ UNCHANGED beyond

ApiSpec == Init /\ [][ApiNext]_vars

\* the routes behind requireAdmin
AdminRoutes == {"GET /messages/admin/all", "GET /locations/all", "POST /trucks"}

\* C21: admin-only routes are protected: a request to GET /messages/admin/all,
\* GET /locations/all or POST /trucks by an authenticated user whose role is
\* not admin is answered with 403 and success:false, and leaves the stored
\* trucks, locations and messages unchanged.
C21_AdminRoutesProtected ==
  [][/\ api'.res.route \in AdminRoutes
     /\ api'.res.user \notin {"", "admin"}
     => /\ api'.res.status = 403
        /\ ~api'.res.success
        /\ api'.trucks = api.trucks
        /\ api'.locations = api.locations
        /\ api'.messages = api.messages]_vars

\* POST /trucks by a user has been answered 403 while the stores hold a
\* message and a location, and no truck
C21_Witness ==
  /\ api.res = Res("POST /trucks", TestUser, 403, FALSE)
  /\ api.messages # <<>>
  /\ api.locations # <<>>
  /\ api.trucks = <<>>

\* C22: sendMessageToUser(userId, text) called by an admin appends exactly one
\* message (confirmed on success, pending on failure) to conversation userId
\* and persists it under that key, leaving every other conversation
\* unchanged; called by a non-admin or with no user logged in it issues no
\* request and changes nothing.
C22_TargetedAdminSend ==
  [][/\ \A i \in 1..MaxSends :
          SendDone(i, "sendMessageToUser") =>
            LET userId == sends[i].userId
                m == last'.message
                before == Get(conversations, userId)
                after == Get(conversations', userId)
            IN  /\ last'.id = userId
                /\ m.text = sends[i].text
                /\ m.pending = ~last'.ok
                /\ Len(after) = Len(before) + 1
                /\ Retained(before, after)
                /\ Count(after, Core(m)) = Count(before, Core(m)) + 1
                /\ lsMessages' =
                     Put(lsMessages, userId, Append(Get(lsMessages, userId), m))
                /\ DOMAIN conversations' = DOMAIN conversations \cup {userId}
                /\ \A k \in DOMAIN conversations \ {userId} :
                     conversations'[k] = conversations[k]
     /\ last'.op = "sendMessageToUserCall" /\ ~last'.ok =>
          /\ sends' = sends
          /\ UNCHANGED <<conversations, usersWithMessages, lsMessages, lsUsers>>]_vars

\* C23: the result of an admin load does not depend on the order in which
\* the per-user detail fetches complete: a load that got the summary and the
\* per-user answers of the load completed before it leaves the conversation
\* map that load left, whichever fetch completed last.
C23_DetailOrderIrrelevant ==
  [][LET p == hist.prev
         d == hist'.prev
     IN  /\ d # p
         /\ p.seq > 0
         /\ d.kind = "details"
         /\ <<d.user, d.kind, d.byUser, d.entries>> =
            <<p.user, p.kind, p.byUser, p.entries>>
         => /\ conversations' = p.conversations
            /\ DOMAIN conversations' = DOMAIN d.entries]_vars

\* two loads got the same answers, one failed and one successful fetch, the
\* second load's fetches completing in the other order
C23_Witness ==
  /\ hist.prev.seq = 2
  /\ hist.prev.reordered
  /\ \E k \in DOMAIN hist.prev.entries : ~hist.prev.entries[k].ok
  /\ \E k \in DOMAIN hist.prev.entries : hist.prev.entries[k].ok
  /\ DOMAIN conversations = {2, 3}
  /\ conversations[2] # conversations[3]
  /\ last.op = "loadDetailResp"

\* C24: in an admin session a message-received event carrying sender id S
\* adds the normalized message to conversation S, creating that conversation
\* when it does not exist, and leaves every other conversation unchanged; an
\* event that carries no sender id leaves all state unchanged.
C24_EventFrame ==
  [][last'.op = "messageReceived" /\ last'.ok =>
       IF last'.id # NoId
       THEN LET before == Get(conversations, last'.id)
                after == Get(conversations', last'.id)
            IN  /\ DOMAIN conversations' = DOMAIN conversations \cup {last'.id}
                /\ Len(after) = Len(before) + 1
                /\ Retained(before, after)
                /\ \E j \in 1..Len(after) :
                     /\ after[j].text = "ev"
                     /\ after[j].id # NoId
                     /\ after[j].createdAt # 0
                     /\ after[j].senderType # ""
                     /\ Count(after, Core(after[j])) =
                          Count(before, Core(after[j])) + 1
                /\ \A k \in DOMAIN conversations \ {last'.id} :
                     conversations'[k] = conversations[k]
       ELSE UNCHANGED <<user, conversations, usersWithMessages, loading,
                        lsMessages, lsUsers, loads, sends>>]_vars

\* an event of user 3 has been delivered to an admin session that held the
\* conversation of user 2 only: both conversations are there
C24_Witness ==
  /\ last.op = "messageReceived"
  /\ last.ok
  /\ last.id = 3
  /\ user.isAdmin
  /\ DOMAIN conversations = {2, 3}
  /\ Len(conversations[3]) = 1
  /\ conversations[3][1].text = "ev"
  /\ conversations[2] # <<>>

\* ------------------------------------------ the origin of a conversation
\* Where the content of each in-memory conversation came from: "fetch" (an
\* answer of the backend), "profile" (the profile's payload), "local" (the
\* local store), "none" (created by an append). A value written from the
\* `conversations` a send captured has the origin it had when captured.

\* setConversations({ [id]: ... }) with content of origin o
Single(id, o) == [k \in {id} |-> o]

\* an append to conversation id of the map m
Appended(m, id) ==
  [k \in DOMAIN m \cup {id} |-> IF k \in DOMAIN m THEN m[k] ELSE "none"]

\* loadMessages was called with `user` = u
OriginCalled(u) ==
  origin' = IF SyncLoad(u) THEN [origin EXCEPT !.of = Single(u.id, "profile")]
            ELSE origin

OriginLogin(u) == Login(u) /\ OriginCalled(u)

OriginLogout == Logout /\ origin' = [origin EXCEPT !.of = EmptyMap]

OriginRefresh == RefreshMessages /\ OriginCalled(user)

\* lines 176-184 and 191-201
OriginLoadMessagesResp(i, resp) ==
  /\ LoadMessagesResp(i, resp)
  /\ origin' =
       [origin EXCEPT !.of =
          Single(loads[i].user.id,
                 CASE resp.kind = "ok" -> "fetch"
                   [] resp.kind = "fail" -> "local"
                   [] resp.kind = "throw" ->
                        IF loads[i].user.hasMessages THEN "profile" ELSE "local")]

\* lines 155-168
OriginLoadSummaryResp(i, resp) ==
  /\ LoadSummaryResp(i, resp)
  /\ origin' =
       IF loads'[i].phase # "idle" THEN origin
       ELSE [origin EXCEPT !.of = IF resp.kind = "ok" THEN EmptyMap
                                  ELSE [k \in DOMAIN lsMessages |-> "local"]]

\* lines 145-156: the detail answer, or the summary's grouping
OriginLoadDetailResp(i, uid, resp) ==
  /\ LoadDetailResp(i, uid, resp)
  /\ origin' =
       IF loads'[i].phase # "idle" THEN origin
       ELSE [origin EXCEPT !.of = [k \in loads[i].userIds |-> "fetch"]]

\* the call captures `conversations`
OriginCaptured(accepted) ==
  origin' = IF accepted THEN [origin EXCEPT !.snap[Lowest(FreeSend)] = origin.of]
            ELSE origin

OriginSendMessageCall(text) ==
  SendMessageCall(text) /\ OriginCaptured(user # NoUser)

OriginSendMessageToUserCall(userId, text) ==
  SendMessageToUserCall(userId, text) /\ OriginCaptured(user # NoUser /\ user.isAdmin)

\* setConversations({ ...conversations, [conversationId]: ... })
OriginWritten(i) ==
  origin' = [of |-> Appended(origin.snap[i], last'.id),
             snap |-> [origin.snap EXCEPT ![i] = EmptyMap]]

OriginSendMessageResp(i, resp, t) ==
  SendMessageResp(i, resp, t) /\ OriginWritten(i)

OriginSendMessageToUserResp(i, resp, t) ==
  SendMessageToUserResp(i, resp, t) /\ OriginWritten(i)

\* setConversations(prev => ({ ...prev, [senderId]: ... }))
OriginMessageReceived(data) ==
  /\ MessageReceived(data)
  /\ origin' = IF user # NoUser /\ user.isAdmin /\ SenderIdOf(data) # NoId
               THEN [origin EXCEPT !.of = Appended(@, SenderIdOf(data))]
               ELSE origin

OriginRefreshUserList == RefreshUserList /\ UNCHANGED origin

\* what the provider and the origin of its conversations leave alone
aside == <<hist, sockets, api, bridge, locs>>

OriginNext ==
  \/ (\E u \in SessionUsers : OriginLogin(u)) /\ UNCHANGED aside
  \/ OriginLogout /\ UNCHANGED aside
  \/ OriginRefresh /\ UNCHANGED aside
  \/ /\ \E i \in 1..MaxLoads : \E resp \in MessagesResps(loads[i].user.id) :
          OriginLoadMessagesResp(i, resp)
     /\ UNCHANGED aside
  \/ /\ \E i \in 1..MaxLoads : \E resp \in SummaryResps :
          OriginLoadSummaryResp(i, resp)
     /\ UNCHANGED aside
  \/ /\ \E i \in 1..MaxLoads : \E uid \in loads[i].userIds :
          \E resp \in DetailResps(uid) : OriginLoadDetailResp(i, uid, resp)
     /\ UNCHANGED aside
  \/ (\E text \in Texts : OriginSendMessageCall(text)) /\ UNCHANGED aside
  \/ /\ \E i \in 1..MaxSends :
          \E resp \in SendResps(sends[i].user, NoRef, sends[i].text) :
            \E t \in ReadClock(resp.kind # "ok") : OriginSendMessageResp(i, resp, t)
     /\ UNCHANGED aside
  \/ /\ \E userId \in UserIds, text \in Texts :
          OriginSendMessageToUserCall(userId, text)
     /\ UNCHANGED aside
  \/ /\ \E i \in 1..MaxSends :
          \E resp \in ToUserResps(sends[i].user, IdRef(sends[i].userId), sends[i].text) :
            \E t \in ReadClock(resp.kind # "ok") :
              OriginSendMessageToUserResp(i, resp, t)
     /\ UNCHANGED aside
  \/ (\E data \in Events : OriginMessageReceived(data)) /\ UNCHANGED aside
  \/ OriginRefreshUserList /\ UNCHANGED aside

OriginSpec == Init /\ [][OriginNext]_vars

\* the state of conversation k, given the origins o and the loading flag
StateOf(o, k, busy) ==
  IF k \in DOMAIN o /\ o[k] \in {"fetch", "profile"} THEN "LOADED"
  ELSE IF k \in DOMAIN o /\ o[k] = "local" THEN "LOCAL_FALLBACK"
  ELSE IF busy THEN "LOADING"
  ELSE "EMPTY"

\* a load ends in this step
LoadEnds ==
  \/ \E i \in 1..MaxLoads : loads[i].phase # "idle" /\ loads'[i].phase = "idle"
  \/ last'.op \in {"login", "refreshMessages"} /\ SyncLoad(user')

\* the load that ends in this step got what it fetched (an admin load whose
\* summary fetch succeeded keeps the summary's data where a detail fetch
\* failed)
LoadSucceeds ==
  last'.op \in {"loadMessagesResp", "loadSummaryResp"} => last'.ok

\* C25: each conversation follows the state machine EMPTY -> LOADING ->
\* LOADED on a successful fetch and EMPTY -> LOADING -> LOCAL_FALLBACK on a
\* failed one, LOADED or LOCAL_FALLBACK -> LOADED on a later successful
\* refresh: a load that ends leaves its conversations LOADED when its fetch
\* succeeded and LOCAL_FALLBACK when it failed, a conversation becomes LOADED
\* or LOCAL_FALLBACK by a load only, and appending a message by a send or a
\* bridge event never changes whether a conversation is LOADED or
\* LOCAL_FALLBACK.
C25_ConversationStates ==
  [][\A k \in {NoId, AdminId} \cup UserIds :
       LET from == StateOf(origin.of, k, loading)
           to == StateOf(origin'.of, k, loading')
           Settled == {"LOADED", "LOCAL_FALLBACK"}
       IN  /\ LoadEnds /\ k \in DOMAIN conversations' =>
                to = IF LoadSucceeds THEN "LOADED" ELSE "LOCAL_FALLBACK"
           /\ to \in Settled /\ to # from => LoadEnds
           /\ AppendStep(last') /\ from \in Settled => to = from]_vars

\* the load of slot i continues in this step
LoadContinues(i) == loads[i].phase # "idle" /\ loads'[i] # loads[i]

\* the send of slot i continues in this step
SendContinues(i) == sends[i].phase = "wait" /\ sends'[i].phase = "idle"

\* C26: the in-memory state only ever holds data of the current session:
\* the step that ends a session leaves the conversations and the Known-user
\* list empty, and a load or a send that was called in a session of another
\* user than the current one writes neither of them when it continues.
C26_CurrentSessionOnly ==
  [][/\ user # NoUser /\ user' = NoUser =>
          conversations' = EmptyMap /\ usersWithMessages' = <<>>
     /\ \A i \in 1..MaxLoads :
          LoadContinues(i) /\ loads[i].user.id # user.id =>
            UNCHANGED <<conversations, usersWithMessages>>
     /\ \A i \in 1..MaxSends :
          SendContinues(i) /\ sends[i].user.id # user.id =>
            UNCHANGED <<conversations, usersWithMessages>>]_vars

\* C27: local persistence of a conversation is an append-only log of sends:
\* every completed sendMessage / sendMessageToUser puts its message (and the
\* auto-reply, when there is one) behind the records stored under the key of
\* the conversation it wrote, nothing else changes the store, and no stored
\* record is removed or rewritten, whatever the interleaving and whatever the
\* in-memory conversation holds.
C27_LocalLogAppendOnly ==
  [][/\ \A k \in DOMAIN lsMessages :
          /\ k \in DOMAIN lsMessages'
          /\ Len(lsMessages'[k]) >= Len(lsMessages[k])
          /\ SubSeq(lsMessages'[k], 1, Len(lsMessages[k])) = lsMessages[k]
     /\ lsMessages' # lsMessages => \E i \in 1..MaxSends : SendContinues(i)
     /\ \A i \in 1..MaxSends :
          SendContinues(i) =>
            LET old == Get(lsMessages, last'.id)
                new == Get(lsMessages', last'.id)
            IN  /\ Len(new) = Len(old) + (IF last'.reply.isNull THEN 1 ELSE 2)
                /\ new[Len(old) + 1] = last'.message
                /\ ~last'.reply.isNull =>
                     Core(new[Len(old) + 2]) = Core(last'.reply)
                /\ \A k \in DOMAIN lsMessages' \ {last'.id} :
                     k \in DOMAIN lsMessages /\ lsMessages'[k] = lsMessages[k]]_vars

\* two sends that were in flight together have completed: the store, empty
\* before, holds both records, the in-memory conversation only the later one
C27_Witness ==
  /\ last.op = "sendMessage"
  /\ last.reply.isNull
  /\ \A i \in 1..MaxSends : sends[i].phase = "idle"
  /\ DOMAIN lsMessages = {last.id}
  /\ Len(lsMessages[last.id]) = 2
  /\ lsMessages # LeftMessages
  /\ lsMessages[last.id][2] = last.message
  /\ Len(Get(conversations, last.id)) = 1

\* C28: the loading flag is true in every state in which a load is in
\* flight, also when two loads overlap, and false once every started load
\* has finished.
C28_LoadingWhileInFlight ==
  /\ ~NoLoadInFlight => loading
  /\ NoLoadInFlight => ~loading

\* ------------------------------------- the socket and its event listeners
\* the socket objects useSocket() may hand out
Sockets == {1, 2}

\* the handleMessageReceived of one run of the effect: a function that
\* closes over the socket and the user of its render
Handler(socket, u) == [socket |-> socket, user |-> u]

\* socket.on('message-received', h)
On(hs, h) == Append(hs, h)

\* socket.off('message-received', h): the listener h is taken out
Off(hs, h) ==
  IF \E i \in 1..Len(hs) : hs[i] = h
  THEN LET i == CHOOSE i \in 1..Len(hs) :
                  hs[i] = h /\ \A j \in 1..(i - 1) : hs[j] # h
       IN  SubSeq(hs, 1, i - 1) \o SubSeq(hs, i + 1, Len(hs))
  ELSE hs

\* EffectRun without the cleanup of the run before
EffectRunNoCleanup(s0, u0, s1, u1) ==
  bridge' = [socket |-> s1,
             handlers |-> IF s1 # NoSocket
                          THEN On(bridge.handlers, Handler(s1, u1))
                          ELSE bridge.handlers]

\* useEffect([socket, user]) (lines 219-245) when the render with socket s0
\* and user u0 is followed by one with s1 and u1: the cleanup of the run
\* before, then the new run
EffectRun(s0, u0, s1, u1) ==
  LET cleaned == IF s0 # NoSocket THEN Off(bridge.handlers, Handler(s0, u0))
                 ELSE bridge.handlers
  IN  bridge' = [socket |-> s1,
                 handlers |-> IF s1 # NoSocket THEN On(cleaned, Handler(s1, u1))
                              ELSE cleaned]

\* the session user becomes u
BridgeLogin(u) == Login(u) /\ EffectRun(bridge.socket, user, bridge.socket, u)

\* the session user becomes null
BridgeLogout ==
  Logout /\ EffectRun(bridge.socket, user, bridge.socket, NoUser)

\* useSocket() hands out another socket, or none
SetSocket(socket) ==
  /\ ops < MaxOps
  /\ socket # bridge.socket
  /\ EffectRun(bridge.socket, user, socket, user)
  /\ ops' = ops + 1
  /\ last' = Step("setSocket", TRUE, NoId)
  /\ UNCHANGED <<user, conversations, usersWithMessages, loading, lsMessages,
                 lsUsers, loads, sends, now, gen>>

\* one listener runs on the state st (lines 221-242)
Handle(h, st, data) ==
  IF h.user # NoUser /\ h.user.isAdmin /\ SenderIdOf(data) # NoId
  THEN [conversations |-> ReceivedConversations(st.conversations, data, now, st.gen),
        usersWithMessages |-> ReceivedUsers(st.usersWithMessages, data),
        gen |-> st.gen + ReceivedGenCount(st.conversations, data)]
  ELSE st

RECURSIVE HandleAll(_, _, _)
\* the listeners hs run one after the other
HandleAll(hs, st, data) ==
  IF hs = <<>> THEN st
  ELSE HandleAll(Tail(hs), Handle(Head(hs), st, data), data)

\* the listeners registered on `socket`
ListenersOn(socket) == SelectSeq(bridge.handlers, LAMBDA h : h.socket = socket)

\* `socket` delivers a message-received event to its listeners
Deliver(socket, data) ==
  LET hs == ListenersOn(socket)
      st == HandleAll(hs, [conversations |-> conversations,
                           usersWithMessages |-> usersWithMessages,
                           gen |-> gen], data)
  IN  /\ ops < MaxOps
      /\ ops' = ops + 1
      /\ st.gen <= MaxGen
      /\ conversations' = st.conversations
      /\ usersWithMessages' = st.usersWithMessages
      /\ gen' = st.gen
      /\ last' = Step("messageReceived",
                      \E i \in 1..Len(hs) : hs[i].user # NoUser /\ hs[i].user.isAdmin,
                      SenderIdOf(data))
      /\ UNCHANGED <<user, loading, lsMessages, lsUsers, loads, sends, now, bridge>>

\* what the session and the socket leave alone
behind == <<hist, sockets, api, origin, locs>>

BridgeNext ==
  \/ (\E u \in SessionUsers : BridgeLogin(u)) /\ UNCHANGED behind
  \/ BridgeLogout /\ UNCHANGED behind
  \/ (\E socket \in Sockets \cup {NoSocket} : SetSocket(socket)) /\ UNCHANGED behind
  \/ (\E socket \in Sockets, data \in Events : Deliver(socket, data))
       /\ UNCHANGED behind

BridgeSpec == Init /\ [][BridgeNext]_vars

\* C29: at every moment at most one message-received handler of the provider
\* is registered (the previous one is unregistered whenever the socket or
\* the user changes), and it is the one of the current socket and user, so
\* each event delivered to an admin session is added to the sender's
\* conversation exactly once.
C29_OneHandler ==
  [][/\ Len(bridge'.handlers) <= 1
     /\ bridge'.handlers =
          IF bridge'.socket = NoSocket THEN <<>>
          ELSE <<Handler(bridge'.socket, user')>>
     /\ last'.op = "messageReceived" /\ last'.ok /\ last'.id # NoId =>
          Len(Get(conversations', last'.id)) =
            Len(Get(conversations, last'.id)) + 1]_vars

\* an event delivered by the socket of an admin session, after two runs of
\* the effect, has been added once by the one handler registered
C29_Witness ==
  /\ last.op = "messageReceived"
  /\ last.ok
  /\ last.id # NoId
  /\ ops = MaxOps
  /\ bridge.socket # NoSocket
  /\ bridge.handlers = <<Handler(bridge.socket, AdminUser)>>
  /\ Len(Get(conversations, last.id)) = 1

\* ------------------------------------------------------------------
\* The location routes of the database backend (routes/locations.js over
\* models/Location.js).  A document keeps the fields the routes select on:
\* user, locationType and isActive; its _id is its position in the
\* collection.  A share is two database operations with an await between
\* them, so shares of several requests interleave; the read and the write
\* of the one document an update or a delete works on are taken together.

MaxDocs == 3   \* documents stored or about to be

\* req.user of the authentication middleware: a customer and an admin
LocUsers == {[_id |-> 1, admin |-> FALSE], [_id |-> 3, admin |-> TRUE]}

\* req.user.isAdminUser()
isAdminUser(reqUser) == reqUser.admin

\* the values of body('locationType') tried, the last one not in the list
\* of line 15
LocTypeInputs == LocationTypes \cup {"elsewhere"}

\* ids of req.params.id: those of the documents there may be
LocIds == 1..MaxDocs

\* the fields of req.body an update is tried with, among those the routes
\* select on
LocBodies ==
  {<<>>} \cup
  { [isActive |-> a] : a \in BOOLEAN } \cup
  { [locationType |-> t] : t \in LocationTypes } \cup
  { [isActive |-> a, locationType |-> t] : a \in BOOLEAN, t \in LocationTypes }

LocRes(route, status, emitted) ==
  [route |-> route, status |-> status, emitted |-> emitted]

\* Location.updateMany({ user, locationType: 'current' }, { isActive: false })
updateManyCurrent(docs, userId) ==
  [i \in 1..Len(docs) |->
     IF docs[i].user = userId /\ docs[i].locationType = "current"
       THEN [docs[i] EXCEPT !.isActive = FALSE]
       ELSE docs[i]]

\* new Location({ user, ..., locationType }): isActive defaults to true
NewLocation(userId, locationType) ==
  [user |-> userId, locationType |-> locationType, isActive |-> TRUE]

\* Object.assign(location, req.body)
Assign(doc, body) ==
  [f \in DOMAIN doc |-> IF f \in DOMAIN body THEN body[f] ELSE doc[f]]

\* Location.getUserCurrentLocation(userId) as a find: every document the
\* query of the findOne matches
CurrentLocations(docs, userId) ==
  { i \in 1..Len(docs) : /\ docs[i].user = userId
                         /\ docs[i].isActive
                         /\ docs[i].locationType = "current" }

RemoveAt(seq, i) == SubSeq(seq, 1, i - 1) \o SubSeq(seq, i + 1, Len(seq))

\* router.post('/'), refused by the validators
PostLocationInvalid(reqUser, locationType) ==
  /\ locationType \notin {"current", "home", "work", "pickup", "delivery"}
  /\ locs' = [locs EXCEPT !.res = LocRes("POST /", 400, FALSE)]

\* router.post('/') up to its await of location.save(): the previous
\* current locations of the user are deactivated when the new one is
\* current
PostLocationDeactivate(reqUser, locationType) ==
  /\ locationType \in {"current", "home", "work", "pickup", "delivery"}
  /\ Len(locs.docs) + Len(locs.pending) < MaxDocs
  /\ locs' = [locs EXCEPT
       !.docs = IF locationType = "current"
                  THEN updateManyCurrent(locs.docs, reqUser._id)
                  ELSE @,
       !.pending = Append(@, NewLocation(reqUser._id, locationType))]

\* router.post('/') from location.save() on: the document is stored, the
\* admins are told, 201
PostLocationSave(i) ==
  /\ i \in 1..Len(locs.pending)
  /\ locs' = [docs |-> Append(locs.docs, locs.pending[i]),
              pending |-> RemoveAt(locs.pending, i),
              res |-> LocRes("POST /", 201, TRUE)]

\* router.post('/') when location.save() throws: nothing stored, 500
PostLocationSaveFails(i) ==
  /\ i \in 1..Len(locs.pending)
  /\ locs' = [locs EXCEPT !.pending = RemoveAt(locs.pending, i),
                          !.res = LocRes("POST /", 500, FALSE)]

\* router.put('/:id')
PutLocation(reqUser, id, body) ==
  locs' = [locs EXCEPT
    !.docs = IF id \in 1..Len(locs.docs)
                  /\ (locs.docs[id].user = reqUser._id \/ isAdminUser(reqUser))
               THEN [@ EXCEPT ![id] = Assign(@, body)]
               ELSE @,
    !.res = IF id \notin 1..Len(locs.docs) THEN LocRes("PUT /:id", 404, FALSE)
            ELSE IF locs.docs[id].user # reqUser._id /\ ~isAdminUser(reqUser)
              THEN LocRes("PUT /:id", 403, FALSE)
            ELSE LocRes("PUT /:id", 200, FALSE)]

\* router.delete('/:id'): a soft delete
DeleteLocation(reqUser, id) ==
  locs' = [locs EXCEPT
    !.docs = IF id \in 1..Len(locs.docs)
                  /\ (locs.docs[id].user = reqUser._id \/ isAdminUser(reqUser))
               THEN [@ EXCEPT ![id].isActive = FALSE]
               ELSE @,
    !.res = IF id \notin 1..Len(locs.docs) THEN LocRes("DELETE /:id", 404, FALSE)
            ELSE IF locs.docs[id].user # reqUser._id /\ ~isAdminUser(reqUser)
              THEN LocRes("DELETE /:id", 403, FALSE)
            ELSE LocRes("DELETE /:id", 200, FALSE)]

\* what the location routes leave alone
around == <<clientVars, hist, sockets, api, origin, bridge>>

LocNext ==
  \/ (\E reqUser \in LocUsers, locationType \in LocTypeInputs :
        PostLocationInvalid(reqUser, locationType)) /\ UNCHANGED around
  \/ (\E reqUser \in LocUsers, locationType \in LocTypeInputs :
        PostLocationDeactivate(reqUser, locationType)) /\ UNCHANGED around
  \/ (\E i \in 1..MaxDocs : PostLocationSave(i)) /\ UNCHANGED around
  \/ (\E i \in 1..MaxDocs : PostLocationSaveFails(i)) /\ UNCHANGED around
  \/ (\E reqUser \in LocUsers, id \in LocIds, body \in LocBodies :
        PutLocation(reqUser, id, body)) /\ UNCHANGED around
  \/ (\E reqUser \in LocUsers, id \in LocIds :
        DeleteLocation(reqUser, id)) /\ UNCHANGED around

LocSpec == Init /\ [][LocNext]_vars

\* C30: each user has at most one active location of type 'current',
\* whatever shares, updates and deletes were made and however they
\* interleaved.
C30_OneActiveCurrent ==
  \A reqUser \in LocUsers :
    Cardinality(CurrentLocations(locs.docs, reqUser._id)) <= 1

====
